---------------------------- MODULE Spec2Model ----------------------------
(***************************************************************************)
(* Model of the legal-document analysis scripts:                           *)
(*   text_chunking.py      TextChunker                                     *)
(*   keyword_extraction.py LegalKeywordExtractor                           *)
(*   summarization.py      LegalDocumentSummarizer                                 *)
(* Texts are TLA+ strings (sequences of characters); every regular         *)
(* expression and string method of the source is modelled character by     *)
(* character.                                                              *)
(***************************************************************************)
EXTENDS Integers, Sequences, FiniteSets, TLC

VARIABLES
    chunk_size,   \* TextChunker.chunk_size
    overlap,      \* TextChunker.overlap
    method,       \* TextChunker.method
    doc,          \* the text handed to process_document
    chunk_pc,     \* "idle" | "ready" | "returned" | "raised"
    chunks,       \* the list process_document returned
    kw_text,      \* the text handed to the extractor
    min_freq,     \* extract_statistical_keywords: min_freq argument
    max_keywords, \* extract_statistical_keywords: max_keywords argument
    max_phrases,  \* extract_key_phrases: max_phrases argument
    kw_pc,        \* "idle" | "ready" | "returned_keywords" | "returned_phrases"
                  \* | "returned_both" | "returned_all"
    keywords,     \* the list extract_statistical_keywords returned
    phrases,      \* the list extract_key_phrases returned
    ner_pipeline, \* LegalKeywordExtractor.ner_pipeline: "none" | "loaded"
    ner_calls,    \* what the NER pipeline did on each chunk it was given
    extraction,   \* the dict extract_all_keywords returned
    ex_text,      \* extractive_summarization: text argument
    num_sentences, \* extractive_summarization: num_sentences argument
    ex_pc,        \* "idle" | "ready" | "returned"
    ex_summary,   \* the string extractive_summarization returned
    summarizer,   \* LegalDocumentSummarizer.summarizer: "none" | "loaded"
    init_max_length, \* the max_length argument of LegalDocumentSummarizer.__init__
    max_length,   \* LegalDocumentSummarizer.max_length, shared by all calls
    call,         \* per thread: the generate_summary call it is running
    requests      \* the requests made to the summarization pipeline so far

chunkerVars == <<chunk_size, overlap, method, doc, chunk_pc, chunks>>

extractorVars ==
    <<kw_text, min_freq, max_keywords, max_phrases, kw_pc, keywords, phrases>>

nerVars == <<ner_pipeline, ner_calls, extraction>>

extractiveVars == <<ex_text, num_sentences, ex_pc, ex_summary>>

summarizerVars == <<summarizer, init_max_length, max_length, call, requests>>

vars == <<chunkerVars, extractorVars, nerVars, extractiveVars, summarizerVars>>

\* no TextChunker has been constructed
ChunkerIdle ==
    /\ chunk_size = 0
    /\ overlap = 0
    /\ method = ""
    /\ doc = ""
    /\ chunk_pc = "idle"
    /\ chunks = <<>>

\* no extractor call is under way
ExtractorIdle ==
    /\ kw_text = ""
    /\ min_freq = 0
    /\ max_keywords = 0
    /\ max_phrases = 0
    /\ kw_pc = "idle"
    /\ keywords = <<>>
    /\ phrases = <<>>

\* extract_all_keywords is not running
NerIdle ==
    /\ ner_pipeline = "none"
    /\ ner_calls = <<>>
    /\ extraction = <<>>

\* no direct call of extractive_summarization is under way
ExtractiveIdle ==
    /\ ex_text = ""
    /\ num_sentences = 0
    /\ ex_pc = "idle"
    /\ ex_summary = ""

\* no LegalDocumentSummarizer has been constructed
SummarizerIdle ==
    /\ summarizer = "none"
    /\ init_max_length = 0
    /\ max_length = 0
    /\ call = <<>>
    /\ requests = {}

(***************************************************************************)
(* Bounds of the model.                                                    *)
(***************************************************************************)
MaxPieces == 4
MaxChunkSize == 3
MaxKwWords == 4
MaxTokenPieces == 3
MaxMinFreq == 2
MaxPhrasePieces == 2

(***************************************************************************)
(* Python string primitives.                                               *)
(***************************************************************************)
Min(a, b) == IF a < b THEN a ELSE b

Char(s, i) == SubSeq(s, i, i)

\* the first position of lo..hi that is in the set P, 0 if none
RECURSIVE FirstIn(_, _, _)
FirstIn(P, lo, hi) ==
    IF lo > hi THEN 0
    ELSE IF lo = hi THEN (IF lo \in P THEN lo ELSE 0)
    ELSE LET mid == (lo + hi) \div 2
             f == FirstIn(P, lo, mid)
         IN IF f # 0 THEN f ELSE FirstIn(P, mid + 1, hi)

\* the last position of lo..hi that is in the set P, 0 if none
RECURSIVE LastIn(_, _, _)
LastIn(P, lo, hi) ==
    IF lo > hi THEN 0
    ELSE IF lo = hi THEN (IF lo \in P THEN lo ELSE 0)
    ELSE LET mid == (lo + hi) \div 2
             l == LastIn(P, mid + 1, hi)
         IN IF l # 0 THEN l ELSE LastIn(P, lo, mid)

\* str.isspace for one character (also the regex class \s)
IsSpace(c) == c \in {" ", "\n", "\t", "\r"}

\* the regex class [.!?]
IsTerminator(c) == c \in {".", "!", "?"}

LStrip(s) ==
    LET NotSpace == {q \in Nat : ~IsSpace(Char(s, q))}
        f == FirstIn(NotSpace, 1, Len(s))
    IN IF f = 0 THEN "" ELSE SubSeq(s, f, Len(s))

RStrip(s) ==
    LET NotSpace == {q \in Nat : ~IsSpace(Char(s, q))}
        l == LastIn(NotSpace, 1, Len(s))
    IN IF l = 0 THEN "" ELSE SubSeq(s, 1, l)

\* str.strip()
Strip(s) == RStrip(LStrip(s))

\* str.split(): split on whitespace runs, no empty strings; the words from
\* position i on
RECURSIVE SplitFrom(_, _)
SplitFrom(s, i) ==
    LET NotSpace == {q \in Nat : ~IsSpace(Char(s, q))}
        Space == {q \in Nat : IsSpace(Char(s, q))}
        start == FirstIn(NotSpace, i, Len(s))
        stop == FirstIn(Space, start, Len(s))
        end == IF stop = 0 THEN Len(s) ELSE stop - 1
    IN IF start = 0 THEN <<>>
       ELSE <<SubSeq(s, start, end)>> \o SplitFrom(s, end + 1)

PySplit(s) == SplitFrom(s, 1)

\* re.split(r'[.!?]+', s): the pieces between maximal terminator runs,
\* empty pieces at either end included; the pieces from position i on
RECURSIVE SentenceSplitFrom(_, _)
SentenceSplitFrom(s, i) ==
    LET Term == {q \in Nat : IsTerminator(Char(s, q))}
        NotTerm == {q \in Nat : ~IsTerminator(Char(s, q))}
        t == FirstIn(Term, i, Len(s))
        n == FirstIn(NotTerm, t, Len(s))
    IN IF t = 0 THEN <<SubSeq(s, i, Len(s))>>
       ELSE <<SubSeq(s, i, t - 1)>>
            \o SentenceSplitFrom(s, IF n = 0 THEN Len(s) + 1 ELSE n)

ReSplitSentences(s) == SentenceSplitFrom(s, 1)

\* end of the maximal whitespace run that starts at position i (i - 1 if none)
SpaceRunEnd(s, i) ==
    LET NotSpace == {q \in Nat : ~IsSpace(Char(s, q))}
        f == FirstIn(NotSpace, i, Len(s))
    IN IF i > Len(s) THEN i - 1 ELSE IF f = 0 THEN Len(s) ELSE f - 1

\* where a match of \n\s*\n that starts at position p ends: \s* is greedy and
\* backs off to the last newline of the whitespace run after p; 0 if no match
ParagraphBreakEnd(s, p) ==
    LET Newline == {q \in Nat : Char(s, q) = "\n"}
    IN IF Char(s, p) # "\n" THEN 0
       ELSE LastIn(Newline, p + 1, SpaceRunEnd(s, p + 1))

\* re.split(r'\n\s*\n', s): the pieces from position i on
RECURSIVE ParagraphSplitFrom(_, _)
ParagraphSplitFrom(s, i) ==
    LET Break == {q \in Nat : ParagraphBreakEnd(s, q) # 0}
        b == FirstIn(Break, i, Len(s))
    IN IF b = 0 THEN <<SubSeq(s, i, Len(s))>>
       ELSE <<SubSeq(s, i, b - 1)>>
            \o ParagraphSplitFrom(s, ParagraphBreakEnd(s, b) + 1)

ReSplitParagraphs(s) == ParagraphSplitFrom(s, 1)

\* sep.join(parts)
RECURSIVE Join(_, _)
Join(sep, parts) ==
    IF parts = <<>> THEN ""
    ELSE IF Len(parts) = 1 THEN parts[1]
    ELSE parts[1] \o sep \o Join(sep, Tail(parts))

\* mutation: the blank parts are kept
StripNonEmpty_KeepBlank(parts) == [k \in 1..Len(parts) |-> Strip(parts[k])]

\* [s.strip() for s in parts if s.strip()]
RECURSIVE StripNonEmpty(_)
StripNonEmpty(parts) ==
    IF parts = <<>> THEN <<>>
    ELSE (IF Strip(parts[1]) # "" THEN <<Strip(parts[1])>> ELSE <<>>)
         \o StripNonEmpty(Tail(parts))

\* a Python index of a slice, brought into 0..n
SliceIndex(k, n) ==
    LET j == IF k < 0 THEN k + n ELSE k
    IN IF j < 0 THEN 0 ELSE IF j > n THEN n ELSE j

\* seq[lo:hi]
PySlice(seq, lo, hi) ==
    LET a == SliceIndex(lo, Len(seq))
        b == SliceIndex(hi, Len(seq))
    IN IF a < b THEN SubSeq(seq, a + 1, b) ELSE <<>>

(***************************************************************************)
(* TextChunker                                                             *)
(***************************************************************************)
\* mutation: the overlap widens the step instead of narrowing it
WindowStep_Added(size, ov) == size + ov

\* the step of range(0, len(units), self.chunk_size - self.overlap)
WindowStep(size, ov) == size - ov

\* mutation: the window is one unit short
Window_ShortByOne(units, i, size) == PySlice(units, i, i + size - 1)

\* words[i:i + self.chunk_size]
Window(units, i, size) == PySlice(units, i, i + size)

\* mutation: ids count from 0
WordChunk_ZeroBasedId(id, i, chunk_words) ==
    LET content == Join(" ", chunk_words)
    IN [id |-> id - 1,
        content |-> Strip(content),
        word_count |-> Len(chunk_words),
        sentence_count |-> Len(ReSplitSentences(content)),
        start_index |-> i,
        end_index |-> i + Len(chunk_words)]

WordChunk(id, i, chunk_words) ==
    LET content == Join(" ", chunk_words)
    IN [id |-> id,
        content |-> Strip(content),
        word_count |-> Len(chunk_words),
        sentence_count |-> Len(ReSplitSentences(content)),
        start_index |-> i,
        end_index |-> i + Len(chunk_words)]

RECURSIVE WordLoop(_, _, _, _, _)
WordLoop(words, size, step, i, acc) ==
    IF i >= Len(words) THEN acc
    ELSE LET chunk_words == Window(words, i, size)
             content == Join(" ", chunk_words)
         IN WordLoop(words, size, step, i + step,
                     IF Strip(content) # ""
                     THEN Append(acc, WordChunk(Len(acc) + 1, i, chunk_words))
                     ELSE acc)

SentenceChunk(id, i, chunk_sentences) ==
    LET content == Join(". ", chunk_sentences) \o "."
    IN [id |-> id,
        content |-> Strip(content),
        word_count |-> Len(PySplit(content)),
        sentence_count |-> Len(chunk_sentences),
        start_index |-> i,
        end_index |-> i + Len(chunk_sentences)]

RECURSIVE SentenceLoop(_, _, _, _, _)
SentenceLoop(sentences, size, step, i, acc) ==
    IF i >= Len(sentences) THEN acc
    ELSE LET chunk_sentences == Window(sentences, i, size)
             content == Join(". ", chunk_sentences) \o "."
         IN SentenceLoop(sentences, size, step, i + step,
                         IF Strip(content) # ""
                         THEN Append(acc, SentenceChunk(Len(acc) + 1, i, chunk_sentences))
                         ELSE acc)

ParagraphChunk(id, i, chunk_paragraphs) ==
    LET content == Join("\n\n", chunk_paragraphs)
    IN [id |-> id,
        content |-> Strip(content),
        word_count |-> Len(PySplit(content)),
        sentence_count |-> Len(ReSplitSentences(content)),
        paragraph_count |-> Len(chunk_paragraphs),
        start_index |-> i,
        end_index |-> i + Len(chunk_paragraphs)]

RECURSIVE ParagraphLoop(_, _, _, _, _)
ParagraphLoop(paragraphs, size, step, i, acc) ==
    IF i >= Len(paragraphs) THEN acc
    ELSE LET chunk_paragraphs == Window(paragraphs, i, size)
             content == Join("\n\n", chunk_paragraphs)
         IN ParagraphLoop(paragraphs, size, step, i + step,
                          IF Strip(content) # ""
                          THEN Append(acc, ParagraphChunk(Len(acc) + 1, i, chunk_paragraphs))
                          ELSE acc)

\* the unit sequences the three methods window over
WordUnits(text) == PySplit(text)
SentenceUnits(text) == StripNonEmpty(ReSplitSentences(text))
ParagraphUnits(text) == StripNonEmpty(ReSplitParagraphs(text))

\* range(0, n, step) raises ValueError for step 0 and is empty for step < 0;
\* a result is [raised |-> BOOLEAN, value |-> list of chunks]
Raised == [raised |-> TRUE, value |-> <<>>]
Returned(v) == [raised |-> FALSE, value |-> v]

chunk_by_words(text, size, ov) ==
    LET step == WindowStep(size, ov)
    IN IF step = 0 THEN Raised
       ELSE IF step < 0 THEN Returned(<<>>)
       ELSE Returned(WordLoop(WordUnits(text), size, step, 0, <<>>))

chunk_by_sentences(text, size, ov) ==
    LET step == WindowStep(size, ov)
    IN IF step = 0 THEN Raised
       ELSE IF step < 0 THEN Returned(<<>>)
       ELSE Returned(SentenceLoop(SentenceUnits(text), size, step, 0, <<>>))

chunk_by_paragraphs(text, size, ov) ==
    LET step == WindowStep(size, ov)
    IN IF step = 0 THEN Raised
       ELSE IF step < 0 THEN Returned(<<>>)
       ELSE Returned(ParagraphLoop(ParagraphUnits(text), size, step, 0, <<>>))

process_document(text, m, size, ov) ==
    IF m = "words" THEN chunk_by_words(text, size, ov)
    ELSE IF m = "sentences" THEN chunk_by_sentences(text, size, ov)
    ELSE IF m = "paragraphs" THEN chunk_by_paragraphs(text, size, ov)
    ELSE Raised

(***************************************************************************)
(* Inputs of the chunker.                                                  *)
(***************************************************************************)
ChunkPieces == {"a", " ", ".", "\n\n"}

RECURSIVE PieceTexts(_, _)
PieceTexts(pieces, k) ==
    IF k = 0 THEN {""}
    ELSE LET shorter == PieceTexts(pieces, k - 1)
         IN shorter \cup {t \o p : t \in shorter, p \in pieces}

TenWords == "w1 w2 w3 w4 w5 w6 w7 w8 w9 w10"

ChunkTexts ==
    PieceTexts(ChunkPieces, MaxPieces)
    \cup {TenWords,
          "One. Two! Three? Four. Five.",
          "p one.\n\np two.\n \n\np three.\n\n\np four",
          "a b c d e",
          "  \n "}

ChunkSizes == {-1} \cup 0..MaxChunkSize
Overlaps == {-1} \cup 0..MaxChunkSize
Methods == {"words", "sentences", "paragraphs", "lines"}

\* TextChunker(chunk_size, overlap, method), and a document to process
ChunkerInit ==
    /\ chunk_size \in ChunkSizes
    /\ overlap \in Overlaps
    /\ method \in Methods
    /\ doc \in ChunkTexts
    /\ chunk_pc = "ready"
    /\ chunks = <<>>

\* the chunker of the scenario: 10 words, chunk_size 4, overlap 1
ScenarioInit ==
    /\ chunk_size = 4
    /\ overlap = 1
    /\ method = "words"
    /\ doc = TenWords
    /\ chunk_pc = "ready"
    /\ chunks = <<>>

ProcessDocument ==
    /\ chunk_pc = "ready"
    /\ LET r == process_document(doc, method, chunk_size, overlap)
       IN /\ chunk_pc' = IF r.raised THEN "raised" ELSE "returned"
          /\ chunks' = r.value
    /\ UNCHANGED <<chunk_size, overlap, method, doc>>
    /\ UNCHANGED <<extractorVars, nerVars, extractiveVars, summarizerVars>>

ChunkInit ==
    /\ ChunkerInit \/ ScenarioInit
    /\ ExtractorIdle /\ NerIdle /\ ExtractiveIdle /\ SummarizerIdle
ChunkNext == ProcessDocument
ChunkSpec == ChunkInit /\ [][ChunkNext]_vars

(***************************************************************************)
(* Claims about the chunker.                                               *)
(***************************************************************************)
Units(m, text) ==
    IF m = "words" THEN WordUnits(text)
    ELSE IF m = "sentences" THEN SentenceUnits(text)
    ELSE ParagraphUnits(text)

\* the text a chunk of the given units carries
RangeContent(m, units) ==
    IF m = "words" THEN Join(" ", units)
    ELSE IF m = "sentences" THEN Join(". ", units) \o "."
    ELSE Join("\n\n", units)

ValidWindow ==
    /\ method \in {"words", "sentences", "paragraphs"}
    /\ chunk_size > 0
    /\ 0 <= overlap
    /\ overlap < chunk_size

\* C1: with chunk_size > 0 and 0 <= overlap < chunk_size, the ranges
\* [start_index, end_index) of the returned chunks, in order, cover every unit
\* index 0..n-1 without a gap, and each chunk's content is exactly the units of
\* its range in document order.
C1_ChunkCoverage ==
    (chunk_pc = "returned" /\ ValidWindow) =>
        LET units == Units(method, doc)
            n == Len(units)
        IN /\ \A j \in 0..(n - 1) :
                \E k \in 1..Len(chunks) :
                    chunks[k].start_index <= j /\ j < chunks[k].end_index
           /\ \A k \in 1..(Len(chunks) - 1) :
                /\ chunks[k].start_index < chunks[k + 1].start_index
                /\ chunks[k + 1].start_index <= chunks[k].end_index
           /\ n > 0 => /\ chunks[1].start_index = 0
                       /\ chunks[Len(chunks)].end_index = n
           /\ n = 0 => chunks = <<>>
           /\ \A k \in 1..Len(chunks) :
                /\ 0 <= chunks[k].start_index
                /\ chunks[k].start_index < chunks[k].end_index
                /\ chunks[k].end_index <= n
                /\ chunks[k].content =
                     RangeContent(method, SubSeq(units, chunks[k].start_index + 1,
                                                 chunks[k].end_index))

C1_Witness ==
    /\ chunk_pc = "returned"
    /\ ValidWindow
    /\ overlap >= 1
    /\ Len(chunks) >= 3
    /\ method = "sentences"

\* C2 (as claimed): whenever chunk_size - overlap <= 0 or chunk_size <= 0,
\* chunking ends in an error and never returns a chunk list.
C2_InvalidParametersFail ==
    (chunk_pc # "ready" /\ (chunk_size - overlap <= 0 \/ chunk_size <= 0))
        => chunk_pc = "raised"

\* what the code does with a negative step: an empty list, silently
C2_Witness ==
    /\ chunk_pc = "returned"
    /\ chunk_size - overlap < 0
    /\ Len(Units(method, doc)) > 0
    /\ chunks = <<>>

\* C3 (as claimed): valid parameters and 0 < n < chunk_size give exactly one
\* chunk, holding all n units.
C3_OneChunkWhenShort ==
    (chunk_pc = "returned" /\ ValidWindow) =>
        LET n == Len(Units(method, doc))
        IN (0 < n /\ n < chunk_size) =>
              /\ Len(chunks) = 1
              /\ chunks[1].start_index = 0
              /\ chunks[1].end_index = n

\* C3 (amended): valid parameters and 0 < n < chunk_size: the first chunk
\* holds all n units, and it is the only chunk exactly when
\* n <= chunk_size - overlap; otherwise a chunk starts at every multiple of
\* chunk_size - overlap below n.
C3_FirstChunkHoldsAll ==
    (chunk_pc = "returned" /\ ValidWindow) =>
        LET units == Units(method, doc)
            n == Len(units)
            step == chunk_size - overlap
        IN (0 < n /\ n < chunk_size) =>
              /\ Len(chunks) >= 1
              /\ chunks[1].start_index = 0
              /\ chunks[1].end_index = n
              /\ chunks[1].content = RangeContent(method, units)
              /\ (Len(chunks) = 1) <=> (n <= step)
              /\ \A k \in 1..Len(chunks) :
                    /\ chunks[k].start_index = (k - 1) * step
                    /\ chunks[k].end_index = n
              /\ (Len(chunks) - 1) * step < n
              /\ n <= Len(chunks) * step

C3_Witness ==
    /\ chunk_pc = "returned"
    /\ ValidWindow
    /\ Len(Units(method, doc)) = 2
    /\ chunk_size = 3
    /\ overlap = 2
    /\ Len(chunks) = 2

\* C4: for valid parameters and n units the k-th chunk has id k, start_index
\* (k-1)*(chunk_size-overlap) and end_index min(start_index+chunk_size, n), and
\* there is a chunk for exactly the start indices below n; 10 words with
\* chunk_size 4 and overlap 1 give chunks starting at 0, 3, 6, 9, the last
\* holding 1 word.
C4_WindowPositions ==
    /\ (chunk_pc = "returned" /\ ValidWindow) =>
          LET n == Len(Units(method, doc))
              step == chunk_size - overlap
          IN /\ Len(chunks) = Cardinality({i \in 0..(n - 1) : i % step = 0})
             /\ \A k \in 1..Len(chunks) :
                   /\ chunks[k].id = k
                   /\ chunks[k].start_index = (k - 1) * step
                   /\ chunks[k].end_index =
                        Min(chunks[k].start_index + chunk_size, n)
    /\ (chunk_pc # "ready" /\ doc = TenWords /\ method = "words"
            /\ chunk_size = 4 /\ overlap = 1) =>
          /\ chunk_pc = "returned"
          /\ Len(chunks) = 4
          /\ <<chunks[1].start_index, chunks[2].start_index,
               chunks[3].start_index, chunks[4].start_index>> = <<0, 3, 6, 9>>
          /\ chunks[4].word_count = 1
          /\ chunks[4].content = "w10"

C4_Witness ==
    /\ chunk_pc = "returned"
    /\ doc = TenWords
    /\ method = "words"
    /\ chunk_size = 4
    /\ overlap = 1
    /\ Len(chunks) = 4

\* C5: for the same text and method, and valid parameters on both sides,
\* a lower overlap (chunk_size fixed) or a higher chunk_size (overlap fixed)
\* never yields more chunks.
C5_CountMonotone ==
    (chunk_pc = "returned" /\ ValidWindow) =>
        /\ \A ov \in 0..overlap :
              LET r == process_document(doc, method, chunk_size, ov)
              IN ~r.raised /\ Len(r.value) <= Len(chunks)
        /\ \A size \in chunk_size..(MaxChunkSize + 1) :
              LET r == process_document(doc, method, size, overlap)
              IN ~r.raised /\ Len(r.value) <= Len(chunks)

C5_Witness ==
    /\ chunk_pc = "returned"
    /\ ValidWindow
    /\ overlap >= 1
    /\ Len(chunks) >= 3
    /\ Len(process_document(doc, method, chunk_size, overlap - 1).value) < Len(chunks)
    /\ Len(process_document(doc, method, chunk_size + 1, overlap).value) < Len(chunks)

(***************************************************************************)
(* LegalKeywordExtractor: characters and regex primitives                  *)
(***************************************************************************)
LowerAlphabet == "abcdefghijklmnopqrstuvwxyz"
UpperAlphabet == "ABCDEFGHIJKLMNOPQRSTUVWXYZ"
LowerLetters == {Char(LowerAlphabet, i) : i \in 1..26}
UpperLetters == {Char(UpperAlphabet, i) : i \in 1..26}
Digits == {"0", "1", "2", "3", "4", "5", "6", "7", "8", "9"}

\* the regex class [a-zA-Z]
IsLetter(c) == c \in LowerLetters \cup UpperLetters

\* the regex class \w
IsWordChar(c) == IsLetter(c) \/ c \in Digits \/ c = "_"

LowerChar(c) ==
    IF c \in UpperLetters
    THEN Char(LowerAlphabet, CHOOSE i \in 1..26 : Char(UpperAlphabet, i) = c)
    ELSE c

\* str.lower(), of the characters lo..hi
RECURSIVE LowerRange(_, _, _)
LowerRange(s, lo, hi) ==
    IF lo > hi THEN ""
    ELSE IF lo = hi THEN LowerChar(Char(s, lo))
    ELSE LET mid == (lo + hi) \div 2
         IN LowerRange(s, lo, mid) \o LowerRange(s, mid + 1, hi)

ToLower(s) == LowerRange(s, 1, Len(s))

\* is there a word character at position p (none outside the text)
WordCharAt(s, p) == p >= 1 /\ p <= Len(s) /\ IsWordChar(Char(s, p))

\* the regex assertion \b just before position p
WordBoundary(s, p) == WordCharAt(s, p - 1) # WordCharAt(s, p)

\* end of the maximal letter run that starts at position i (i - 1 if none)
LetterRunEnd(s, i) ==
    LET NotLetter == {q \in Nat : ~IsLetter(Char(s, q))}
        f == FirstIn(NotLetter, i, Len(s))
    IN IF i > Len(s) THEN i - 1 ELSE IF f = 0 THEN Len(s) ELSE f - 1

\* where a match of \b[a-zA-Z]+\b that starts at position p ends: the longest
\* letter run from p that is followed by a word boundary; 0 if no match
WordMatchEnd(s, p) ==
    LET BoundaryAfter == {e \in Nat : WordBoundary(s, e + 1)}
    IN IF ~WordBoundary(s, p) THEN 0
       ELSE LastIn(BoundaryAfter, p, LetterRunEnd(s, p))

\* re.findall(r'\b[a-zA-Z]+\b', s): the matches from position p on
RECURSIVE FindWordsFrom(_, _)
FindWordsFrom(s, p) ==
    LET Match == {q \in Nat : WordMatchEnd(s, q) # 0}
        m == FirstIn(Match, p, Len(s))
        e == WordMatchEnd(s, m)
    IN IF m = 0 THEN <<>>
       ELSE <<SubSeq(s, m, e)>> \o FindWordsFrom(s, e + 1)

FindAllWords(s) == FindWordsFrom(s, 1)

(***************************************************************************)
(* LegalKeywordExtractor.extract_statistical_keywords                      *)
(***************************************************************************)
stop_words ==
    {"the", "a", "an", "and", "or", "but", "in", "on", "at", "to",
     "for", "of", "with", "by", "is", "are", "was", "were", "be",
     "been", "being", "have", "has", "had", "do", "does", "did",
     "will", "would", "could", "should", "may", "might", "can",
     "this", "that", "these", "those", "i", "you", "he", "she",
     "it", "we", "they", "me", "him", "her", "us", "them"}

\* the keys of self.legal_categories, in declaration order
CategoryOrder ==
    <<"contract_terms", "parties", "legal_actions", "financial_terms",
      "temporal_terms", "property_terms">>

legal_categories ==
    [c \in {CategoryOrder[i] : i \in 1..Len(CategoryOrder)} |->
        CASE c = "contract_terms" ->
               {"agreement", "contract", "covenant", "provision", "clause",
                "term", "condition", "stipulation", "arrangement", "understanding"}
          [] c = "parties" ->
               {"party", "parties", "plaintiff", "defendant", "appellant",
                "appellee", "petitioner", "respondent", "landlord", "tenant",
                "lessor", "lessee", "grantor", "grantee", "buyer", "seller",
                "vendor", "purchaser", "client", "customer"}
          [] c = "legal_actions" ->
               {"shall", "must", "may", "will", "should", "agree", "covenant",
                "warrant", "represent", "acknowledge", "consent", "waive",
                "release", "indemnify", "defend", "enforce", "terminate",
                "breach", "default", "violate", "comply", "perform"}
          [] c = "financial_terms" ->
               {"payment", "fee", "cost", "expense", "price", "amount",
                "consideration", "compensation", "damages", "penalty",
                "interest", "rent", "deposit", "refund", "reimbursement",
                "liability", "obligation", "debt", "credit", "installment"}
          [] c = "temporal_terms" ->
               {"date", "time", "period", "term", "duration", "deadline",
                "expiration", "commencement", "termination", "renewal",
                "extension", "notice", "day", "week", "month", "year",
                "annual", "monthly", "quarterly", "immediate", "upon"}
          [] c = "property_terms" ->
               {"property", "premises", "land", "building", "structure",
                "real estate", "personal property", "asset", "title",
                "ownership", "possession", "use", "occupancy", "access",
                "easement", "right of way", "boundary", "lot", "parcel"}]

\* mutation: the category lists are searched from the last to the first
RECURSIVE CategoryFrom_Reversed(_, _)
CategoryFrom_Reversed(word_lower, k) ==
    LET j == Len(CategoryOrder) + 1 - k
    IN IF k > Len(CategoryOrder) THEN "general"
       ELSE IF word_lower \in legal_categories[CategoryOrder[j]] THEN CategoryOrder[j]
       ELSE CategoryFrom_Reversed(word_lower, k + 1)

\* for category, terms in self.legal_categories.items(): first list that
\* holds the word, from the k-th on
RECURSIVE CategoryFrom(_, _)
CategoryFrom(word_lower, k) ==
    IF k > Len(CategoryOrder) THEN "general"
    ELSE IF word_lower \in legal_categories[CategoryOrder[k]] THEN CategoryOrder[k]
    ELSE CategoryFrom(word_lower, k + 1)

categorize_word(word) == CategoryFrom(ToLower(word), 1)

\* [word for word in words if word not in stop_words and len(word) > 2]
RECURSIVE FilterWords(_)
FilterWords(words) ==
    IF words = <<>> THEN <<>>
    ELSE (IF words[1] \notin stop_words /\ Len(words[1]) > 2
          THEN <<words[1]>> ELSE <<>>) \o FilterWords(Tail(words))

\* Counter(words): the distinct words in first-encounter order ...
RECURSIVE CounterKeys(_, _)
CounterKeys(words, seen) ==
    IF words = <<>> THEN <<>>
    ELSE IF words[1] \in seen THEN CounterKeys(Tail(words), seen)
    ELSE <<words[1]>> \o CounterKeys(Tail(words), seen \cup {words[1]})

\* ... and the count of each
CounterCount(words, w) == Cardinality({i \in 1..Len(words) : words[i] = w})

\* mutation: a word qualifies one occurrence early
IsFrequent_OffByOne(freq, min) == freq + 1 >= min

\* if freq >= min_freq
IsFrequent(freq, min) == freq >= min

\* mutation: every category is weighted alike
KeywordScore_Unweighted(freq, category) == freq

\* freq * (2 if category != 'general' else 1)
KeywordScore(freq, category) == freq * (IF category # "general" THEN 2 ELSE 1)

\* the keywords list before sorting: one dict per frequent word
RECURSIVE KeywordDicts(_, _, _)
KeywordDicts(keys, words, min) ==
    IF keys = <<>> THEN <<>>
    ELSE LET word == keys[1]
             freq == CounterCount(words, word)
             category == categorize_word(word)
         IN (IF IsFrequent(freq, min)
             THEN <<[term |-> word,
                     frequency |-> freq,
                     category |-> category,
                     score |-> KeywordScore(freq, category)]>>
             ELSE <<>>) \o KeywordDicts(Tail(keys), words, min)

\* mutation: an unstable insertion, equal scores end up in reverse order
RECURSIVE InsertByScore_Unstable(_, _)
InsertByScore_Unstable(sorted, kw) ==
    IF sorted = <<>> THEN <<kw>>
    ELSE IF sorted[1].score > kw.score
         THEN <<sorted[1]>> \o InsertByScore_Unstable(Tail(sorted), kw)
         ELSE <<kw>> \o sorted

\* kw placed after every entry whose score is at least its own
RECURSIVE InsertByScore(_, _)
InsertByScore(sorted, kw) ==
    IF sorted = <<>> THEN <<kw>>
    ELSE IF sorted[1].score >= kw.score
         THEN <<sorted[1]>> \o InsertByScore(Tail(sorted), kw)
         ELSE <<kw>> \o sorted

\* keywords.sort(key=lambda x: x['score'], reverse=True): a stable sort
RECURSIVE SortByScore(_, _)
SortByScore(list, sorted) ==
    IF list = <<>> THEN sorted
    ELSE SortByScore(Tail(list), InsertByScore(sorted, list[1]))

extract_statistical_keywords(text, min, max) ==
    LET words == FindAllWords(ToLower(text))
        filtered_words == FilterWords(words)
        dicts == KeywordDicts(CounterKeys(filtered_words, {}), filtered_words, min)
    IN PySlice(SortByScore(dicts, <<>>), 0, max)

(***************************************************************************)
(* LegalKeywordExtractor.extract_key_phrases                               *)
(***************************************************************************)
\* the alternatives of the capture group of each pattern, in order
patterns ==
    << <<"subject to", "in accordance with", "pursuant to", "with respect to",
         "in the event of", "provided that", "notwithstanding",
         "for the purpose of">>,
       <<"the parties agree", "it is agreed", "the tenant shall",
         "the landlord shall", "this agreement", "the term of",
         "in consideration of">>,
       <<"shall be responsible for", "shall maintain", "shall provide",
         "shall pay", "shall deliver", "shall perform", "shall comply with">>,
       <<"if and only if", "unless and until", "in the event that",
         "on condition that", "provided however">>,
       <<"may be terminated", "shall terminate", "upon termination",
         "in case of termination", "termination shall">>,
       <<"written notice", "notice shall be", "upon receipt of notice",
         "notice is hereby given">> >>

\* position of the first [.!?] at or after p (0 if none): where the tail
\* [^.!?]*[.!?] of a pattern ends
FirstTerminator(s, p) ==
    LET Term == {q \in Nat : IsTerminator(Char(s, q))}
    IN FirstIn(Term, p, Len(s))

\* does alternative trig match at p (re.IGNORECASE) with the rest of the
\* pattern matching after it: \b, then [^.!?]*[.!?]
TriggerMatches(s, lower, p, trig) ==
    LET e == p + Len(trig) - 1
    IN /\ e <= Len(s)
       /\ SubSeq(lower, p, e) = trig
       /\ WordBoundary(s, e + 1)
       /\ FirstTerminator(s, e + 1) # 0

\* the match of \b(t1|t2|...)\b[^.!?]*[.!?] at position p: the first
\* alternative that lets the whole pattern match; [from, to] is group 1 and
\* end the last position of the whole match; end = 0 if there is no match
PatternMatchAt(s, lower, p, triggers) ==
    LET ok == {k \in 1..Len(triggers) : TriggerMatches(s, lower, p, triggers[k])}
    IN IF ~WordBoundary(s, p) \/ ok = {} THEN [from |-> p, to |-> p, end |-> 0]
       ELSE LET k == CHOOSE k \in ok : \A j \in ok : k <= j
                e == p + Len(triggers[k]) - 1
            IN [from |-> p, to |-> e, end |-> FirstTerminator(s, e + 1)]

\* the successive non-overlapping matches of one pattern, left to right,
\* from position p on
RECURSIVE PatternMatchesFrom(_, _, _, _)
PatternMatchesFrom(s, lower, p, triggers) ==
    LET Match == {q \in Nat : PatternMatchAt(s, lower, q, triggers).end # 0}
        q == FirstIn(Match, p, Len(s))
        m == PatternMatchAt(s, lower, q, triggers)
    IN IF q = 0 THEN <<>>
       ELSE <<m>> \o PatternMatchesFrom(s, lower, m.end + 1, triggers)

PatternMatches(s, triggers) == PatternMatchesFrom(s, ToLower(s), 1, triggers)

\* what re.findall gives for one match of a pattern with one capture group:
\* the text of the group
FindAllItem(s, m) == SubSeq(s, m.from, m.to)

\* re.findall(pattern, text, re.IGNORECASE)
ReFindAll(s, triggers) ==
    LET ms == PatternMatches(s, triggers)
    IN [k \in 1..Len(ms) |-> FindAllItem(s, ms[k])]

\* re.sub(r'[.!?]+$', '', s)
StripTerminators(s) ==
    LET NotTerm == {q \in Nat : ~IsTerminator(Char(s, q))}
        l == LastIn(NotTerm, 1, Len(s))
    IN IF l = 0 THEN "" ELSE SubSeq(s, 1, l)

MinPhraseLen == 20
MaxPhraseLen == 200

\* the inner loop: cleaned matches of acceptable length, in order
RECURSIVE CleanedPhrases(_)
CleanedPhrases(matches) ==
    IF matches = <<>> THEN <<>>
    ELSE LET cleaned_phrase == StripTerminators(Strip(matches[1]))
         IN (IF MinPhraseLen <= Len(cleaned_phrase) /\ Len(cleaned_phrase) <= MaxPhraseLen
             THEN <<cleaned_phrase>> ELSE <<>>) \o CleanedPhrases(Tail(matches))

\* the outer loop over the patterns, from the k-th on
RECURSIVE PhrasesFrom(_, _)
PhrasesFrom(text, k) ==
    IF k > Len(patterns) THEN <<>>
    ELSE CleanedPhrases(ReFindAll(text, patterns[k])) \o PhrasesFrom(text, k + 1)

\* mutation: repeated phrases are kept
Dedupe_KeepAll(list, seen) == list

\* list(dict.fromkeys(phrases))
RECURSIVE Dedupe(_, _)
Dedupe(list, seen) ==
    IF list = <<>> THEN <<>>
    ELSE IF list[1] \in seen THEN Dedupe(Tail(list), seen)
    ELSE <<list[1]>> \o Dedupe(Tail(list), seen \cup {list[1]})

extract_key_phrases(text, max) ==
    PySlice(Dedupe(PhrasesFrom(text, 1), {}), 0, max)

(***************************************************************************)
(* Inputs of the extractor.                                                *)
(***************************************************************************)
DefaultMinFreq == 2
DefaultMaxKeywords == 50
DefaultMaxPhrases == 20

\* texts of up to k words of a vocabulary, separated by single spaces
RECURSIVE WordTexts(_, _)
WordTexts(vocabulary, k) ==
    IF k = 0 THEN {""}
    ELSE LET shorter == WordTexts(vocabulary, k - 1)
         IN shorter \cup {IF t = "" THEN w ELSE t \o " " \o w :
                           t \in shorter, w \in vocabulary}

KwVocabulary == {"party", "Term", "pay", "the"}
TokenPieces == {"fee", "Lot", "7", "_", " ", "-"}

ScenarioKeywordText == "The party shall pay the party shall pay rent."

KeywordTexts ==
    WordTexts(KwVocabulary, MaxKwWords)
    \cup PieceTexts(TokenPieces, MaxTokenPieces)
    \cup {ScenarioKeywordText,
          " \n\t ",
          "May the covenant term, or this COVENANT TERM, will be kept; it should. may will should",
          "rent2 rent rent_ rent rent-free 2rent (rent) re nt",
          "use use lot lot fee fee day day shall shall tenant tenant clause clause xyz xyz"}

ScenarioPhraseText == "Subject to the terms herein, the tenant shall pay rent."

PhrasePieces ==
    {"Subject to the terms herein, the tenant shall pay rent",
     " The landlord shall be responsible for repairs",
     " NOTICE IS HEREBY GIVEN",
     " in case of termination",
     " marshall pay",
     ".",
     "?!"}

PhraseTexts ==
    PieceTexts(PhrasePieces, MaxPhrasePieces)
    \cup {ScenarioPhraseText,
          "  ",
          "He shall be responsible for x. She SHALL BE RESPONSIBLE FOR y! he shall be responsible for z. She shall be responsible for Y?",
          "Upon receipt of notice\nthe tenant shall be responsible for it",
          "upon receipt of notices. Notice is hereby given_ now. in case of termination.",
          "Notice is hereby given now. In case of termination the tenant shall be responsible for it. Notice is hereby given."}

KeywordsInit ==
    /\ kw_text \in KeywordTexts
    /\ min_freq \in 1..MaxMinFreq
    /\ max_keywords \in {1, 2, DefaultMaxKeywords}
    /\ max_phrases = 0
    /\ kw_pc = "ready"
    /\ keywords = <<>>
    /\ phrases = <<>>

ExtractStatisticalKeywords ==
    /\ kw_pc = "ready"
    /\ keywords' = extract_statistical_keywords(kw_text, min_freq, max_keywords)
    /\ kw_pc' = "returned_keywords"
    /\ UNCHANGED <<kw_text, min_freq, max_keywords, max_phrases, phrases>>
    /\ UNCHANGED <<chunkerVars, nerVars, extractiveVars, summarizerVars>>

KeywordInit ==
    KeywordsInit /\ ChunkerIdle /\ NerIdle /\ ExtractiveIdle /\ SummarizerIdle
KeywordNext == ExtractStatisticalKeywords
KeywordSpec == KeywordInit /\ [][KeywordNext]_vars

PhrasesInit ==
    /\ kw_text \in PhraseTexts
    /\ min_freq = 0
    /\ max_keywords = 0
    /\ max_phrases \in {1, 2, DefaultMaxPhrases}
    /\ kw_pc = "ready"
    /\ keywords = <<>>
    /\ phrases = <<>>

ExtractKeyPhrases ==
    /\ kw_pc = "ready"
    /\ phrases' = extract_key_phrases(kw_text, max_phrases)
    /\ kw_pc' = "returned_phrases"
    /\ UNCHANGED <<kw_text, min_freq, max_keywords, max_phrases, keywords>>
    /\ UNCHANGED <<chunkerVars, nerVars, extractiveVars, summarizerVars>>

PhraseInit ==
    PhrasesInit /\ ChunkerIdle /\ NerIdle /\ ExtractiveIdle /\ SummarizerIdle
PhraseNext == ExtractKeyPhrases
PhraseSpec == PhraseInit /\ [][PhraseNext]_vars

(***************************************************************************)
(* Claims about the extractor.                                             *)
(***************************************************************************)
\* the clauses of a text: for every match of every pattern, the text from the
\* start of the trigger to the terminator that ends the match, trimmed
ClauseTexts(text) ==
    UNION {LET ms == PatternMatches(text, patterns[f])
           IN {StripTerminators(Strip(SubSeq(text, ms[k].from, ms[k].end))) :
                 k \in 1..Len(ms)} : f \in 1..Len(patterns)}

StartsWith(s, prefix) ==
    Len(s) >= Len(prefix) /\ SubSeq(s, 1, Len(prefix)) = prefix

\* C6 (as claimed): every phrase returned by extract_key_phrases is the text
\* from the start of a matched trigger up to the next sentence terminator
\* (terminator trimmed), not the trigger alone; on "Subject to the terms
\* herein, the tenant shall pay rent." exactly one phrase is returned, and it
\* begins (case-insensitively) with "subject to the terms herein".
C6_PhraseIsWholeClause ==
    kw_pc = "returned_phrases" =>
        /\ \A k \in 1..Len(phrases) : phrases[k] \in ClauseTexts(kw_text)
        /\ kw_text = ScenarioPhraseText =>
              /\ Len(phrases) = 1
              /\ StartsWith(ToLower(phrases[1]), "subject to the terms herein")

\* what the code does on the scenario: nothing is returned
C6_Witness ==
    /\ kw_pc = "returned_phrases"
    /\ kw_text = ScenarioPhraseText
    /\ max_phrases = DefaultMaxPhrases
    /\ phrases = <<>>

\* the surviving tokens of a text, in order
Tokens(text) == FilterWords(FindAllWords(ToLower(text)))

TermsOf(kws) == {kws[k].term : k \in 1..Len(kws)}

\* C7: every keyword returned has score = 2 * frequency when its category is
\* not 'general' and score = frequency when it is; "The party shall pay the
\* party shall pay rent." with min_freq 2 gives 'shall' (frequency 2,
\* legal_actions, score 4) and 'party' (frequency 2, parties, score 4) and
\* not 'rent'.
C7_KeywordScore ==
    kw_pc = "returned_keywords" =>
        /\ \A k \in 1..Len(keywords) :
              keywords[k].score =
                 IF keywords[k].category = "general"
                 THEN keywords[k].frequency
                 ELSE 2 * keywords[k].frequency
        /\ (kw_text = ScenarioKeywordText /\ min_freq = 2 /\ max_keywords >= 2) =>
              /\ \E k \in 1..Len(keywords) :
                    keywords[k] = [term |-> "shall", frequency |-> 2,
                                   category |-> "legal_actions", score |-> 4]
              /\ \E k \in 1..Len(keywords) :
                    keywords[k] = [term |-> "party", frequency |-> 2,
                                   category |-> "parties", score |-> 4]
              /\ "rent" \notin TermsOf(keywords)

C7_Witness ==
    /\ kw_pc = "returned_keywords"
    /\ kw_text = ScenarioKeywordText
    /\ min_freq = 2
    /\ max_keywords = DefaultMaxKeywords
    /\ Len(keywords) = 3
    /\ keywords[3].category = "general"

\* C8: every keyword in the result has frequency >= min_freq, and no two
\* keywords of the result have the same term.
C8_FrequencyFloorAndUniqueness ==
    kw_pc = "returned_keywords" =>
        /\ \A k \in 1..Len(keywords) : keywords[k].frequency >= min_freq
        /\ \A j, k \in 1..Len(keywords) :
              keywords[j].term = keywords[k].term => j = k

C8_Witness ==
    /\ kw_pc = "returned_keywords"
    /\ min_freq = 2
    /\ Len(keywords) >= 2
    /\ \E i \in 1..Len(Tokens(kw_text)) :
          CounterCount(Tokens(kw_text), Tokens(kw_text)[i]) = 1

AllCategories ==
    {"contract_terms", "parties", "legal_actions", "financial_terms",
     "temporal_terms", "property_terms", "general"}

\* the priority order the claim states
ClaimedPriority ==
    <<"contract_terms", "parties", "legal_actions", "financial_terms",
      "temporal_terms", "property_terms">>

\* the first category, in the claimed order, whose list holds the term
FirstListed(term) ==
    LET holding == {i \in 1..Len(ClaimedPriority) :
                       term \in legal_categories[ClaimedPriority[i]]}
    IN IF holding = {} THEN "general"
       ELSE ClaimedPriority[CHOOSE i \in holding : \A j \in holding : i <= j]

\* C9: every keyword's category is one of the seven values: the first of
\* contract_terms, parties, legal_actions, financial_terms, temporal_terms,
\* property_terms whose list holds the exact lowercase term, else 'general';
\* 'term' and 'covenant', listed twice, get contract_terms.
C9_CategoryPriority ==
    kw_pc = "returned_keywords" =>
        \A k \in 1..Len(keywords) :
            /\ keywords[k].category \in AllCategories
            /\ keywords[k].category = FirstListed(keywords[k].term)
            /\ keywords[k].term \in {"term", "covenant"} =>
                  keywords[k].category = "contract_terms"

C9_Witness ==
    /\ kw_pc = "returned_keywords"
    /\ \E j, k \in 1..Len(keywords) :
          /\ keywords[j].term = "term"
          /\ keywords[j].category = "contract_terms"
          /\ keywords[k].term = "covenant"
          /\ keywords[k].category = "contract_terms"

\* position of the first occurrence of a term among the tokens
FirstEncounter(tokens, t) ==
    CHOOSE i \in 1..Len(tokens) :
        tokens[i] = t /\ \A j \in 1..(i - 1) : tokens[j] # t

\* the terms that qualify: surviving tokens with at least min occurrences
Qualifying(tokens, min) ==
    {tokens[i] : i \in {j \in 1..Len(tokens) : CounterCount(tokens, tokens[j]) >= min}}

\* C10: the keyword sequence is non-increasing in score, keywords of equal
\* score appear in the order their terms were first encountered in the text,
\* and the result is the first min(max_keywords, number of qualifying terms)
\* entries of that ordering.
C10_ScoreOrdering ==
    kw_pc = "returned_keywords" =>
        LET tokens == Tokens(kw_text)
            qualifying == Qualifying(tokens, min_freq)
            ScoreOf(t) == KeywordScore(CounterCount(tokens, t), categorize_word(t))
            Before(t, u) ==
                \/ ScoreOf(t) > ScoreOf(u)
                \/ /\ ScoreOf(t) = ScoreOf(u)
                   /\ FirstEncounter(tokens, t) < FirstEncounter(tokens, u)
        IN /\ \A j, k \in 1..Len(keywords) :
                j < k => /\ keywords[j].score >= keywords[k].score
                         /\ keywords[j].score = keywords[k].score =>
                               FirstEncounter(tokens, keywords[j].term)
                                  < FirstEncounter(tokens, keywords[k].term)
           /\ Len(keywords) = Min(max_keywords, Cardinality(qualifying))
           /\ TermsOf(keywords) \subseteq qualifying
           /\ \A k \in 1..Len(keywords) :
                 keywords[k].score = ScoreOf(keywords[k].term)
           /\ \A t \in qualifying \ TermsOf(keywords) :
                 \A k \in 1..Len(keywords) : Before(keywords[k].term, t)

C10_Witness ==
    /\ kw_pc = "returned_keywords"
    /\ max_keywords = 2
    /\ Len(keywords) = 2
    /\ Cardinality(Qualifying(Tokens(kw_text), min_freq)) >= 3
    /\ keywords[1].score = keywords[2].score
    /\ keywords[1].category = "general"

\* position of the first occurrence of x in a list
FirstIndexOf(list, x) ==
    CHOOSE i \in 1..Len(list) : list[i] = x /\ \A j \in 1..(i - 1) : list[j] # x

\* C11: every phrase returned by extract_key_phrases has between 20 and 200
\* characters after its trailing terminators are trimmed, no phrase occurs
\* twice, the phrases keep first-occurrence order over the six pattern
\* families scanned in their fixed order, and there are at most max_phrases.
C11_PhraseBounds ==
    kw_pc = "returned_phrases" =>
        LET found == PhrasesFrom(kw_text, 1)
            distinct == {found[i] : i \in 1..Len(found)}
        IN /\ Len(phrases) <= max_phrases
           /\ Len(phrases) = Min(max_phrases, Cardinality(distinct))
           /\ \A k \in 1..Len(phrases) :
                 /\ Len(phrases[k]) >= 20
                 /\ Len(phrases[k]) <= 200
                 /\ phrases[k] = StripTerminators(phrases[k])
                 /\ phrases[k] \in distinct
           /\ \A j, k \in 1..Len(phrases) :
                 j < k => /\ phrases[j] # phrases[k]
                          /\ FirstIndexOf(found, phrases[j])
                               < FirstIndexOf(found, phrases[k])
           /\ \A x \in distinct :
                 (\A k \in 1..Len(phrases) : phrases[k] # x) =>
                     \A k \in 1..Len(phrases) :
                         FirstIndexOf(found, phrases[k]) < FirstIndexOf(found, x)

\* three phrases of three families are found in the reverse of their order in
\* the text, one of them twice, and the result is cut to the first two
C11_Witness ==
    /\ kw_pc = "returned_phrases"
    /\ max_phrases = 2
    /\ phrases = <<"shall be responsible for", "In case of termination">>
    /\ PhrasesFrom(kw_text, 1)
         = <<"shall be responsible for", "In case of termination",
             "Notice is hereby given", "Notice is hereby given">>

(***************************************************************************)
(* LegalDocumentSummarizer.preprocess_legal_text                                   *)
(***************************************************************************)
\* end of the maximal digit run that starts at position i (i - 1 if none)
DigitRunEnd(s, i) ==
    LET NotDigit == {q \in Nat : Char(s, q) \notin Digits}
        f == FirstIn(NotDigit, i, Len(s))
    IN IF i > Len(s) THEN i - 1 ELSE IF f = 0 THEN Len(s) ELSE f - 1

\* is the string lit at position p of s
LiteralAt(s, p, lit) ==
    p + Len(lit) - 1 <= Len(s) /\ SubSeq(s, p, p + Len(lit) - 1) = lit

\* where a match of \b\d+\s+(U\.S\.)\s+\d+ that starts at p ends, 0 if none;
\* every quantifier must take its whole run for the next element to match
UsCitationEnd(s, p) ==
    LET d1 == DigitRunEnd(s, p)
        w1 == SpaceRunEnd(s, d1 + 1)
        u == w1 + 4
        w2 == SpaceRunEnd(s, u + 1)
        d2 == DigitRunEnd(s, w2 + 1)
    IN IF /\ WordBoundary(s, p)
          /\ d1 >= p
          /\ w1 > d1
          /\ LiteralAt(s, w1 + 1, "U.S.")
          /\ w2 > u
          /\ d2 > w2
       THEN d2 ELSE 0

\* where a match of \b\d+\s+(F\.\d+d?)\s+\d+ that starts at p ends, 0 if none
FCitationEnd(s, p) ==
    LET d1 == DigitRunEnd(s, p)
        w1 == SpaceRunEnd(s, d1 + 1)
        f == DigitRunEnd(s, w1 + 3)
        r == IF LiteralAt(s, f + 1, "d") THEN f + 1 ELSE f
        w2 == SpaceRunEnd(s, r + 1)
        d2 == DigitRunEnd(s, w2 + 1)
    IN IF /\ WordBoundary(s, p)
          /\ d1 >= p
          /\ w1 > d1
          /\ LiteralAt(s, w1 + 1, "F.")
          /\ f >= w1 + 3
          /\ w2 > r
          /\ d2 > w2
       THEN d2 ELSE 0

\* where a match of \b lit \b that starts at p ends, 0 if none
LiteralWordEnd(s, p, lit) ==
    IF /\ WordBoundary(s, p)
       /\ LiteralAt(s, p, lit)
       /\ WordBoundary(s, p + Len(lit))
    THEN p + Len(lit) - 1 ELSE 0

\* re.sub(pattern, repl, s), from position i on; ends[q] is where a match of
\* the pattern that starts at q ends, 0 if none
RECURSIVE ReSubFrom(_, _, _, _)
ReSubFrom(ends, repl, s, i) ==
    LET m == FirstIn({q \in Nat : ends[q] # 0}, i, Len(s))
    IN IF m = 0 THEN SubSeq(s, i, Len(s))
       ELSE SubSeq(s, i, m - 1) \o repl \o ReSubFrom(ends, repl, s, ends[m] + 1)

ReSub(ends, repl, s) == ReSubFrom(ends, repl, s, 1)

\* re.sub(r'\s+', ' ', text)
SubWhitespace(text) ==
    CHOOSE r \in {ReSub([q \in 1..Len(s) |->
                           IF IsSpace(Char(s, q)) THEN SpaceRunEnd(s, q) ELSE 0],
                        " ", s) : s \in {text}} : TRUE

\* re.sub(r'\b\d+\s+(U\.S\.)\s+\d+', '[CITATION]', text)
SubUsCitation(text) ==
    CHOOSE r \in {ReSub([q \in 1..Len(s) |-> UsCitationEnd(s, q)],
                        "[CITATION]", s) : s \in {text}} : TRUE

\* re.sub(r'\b\d+\s+(F\.\d+d?)\s+\d+', '[CITATION]', text)
SubFCitation(text) ==
    CHOOSE r \in {ReSub([q \in 1..Len(s) |-> FCitationEnd(s, q)],
                        "[CITATION]", s) : s \in {text}} : TRUE

\* re.sub(r'\bWHEREAS\b', 'Given that', text)
SubWhereas(text) ==
    CHOOSE r \in {ReSub([q \in 1..Len(s) |-> LiteralWordEnd(s, q, "WHEREAS")],
                        "Given that", s) : s \in {text}} : TRUE

\* re.sub(r'\bNOW, THEREFORE\b', 'Therefore', text)
SubNowTherefore(text) ==
    CHOOSE r \in {ReSub([q \in 1..Len(s) |-> LiteralWordEnd(s, q, "NOW, THEREFORE")],
                        "Therefore", s) : s \in {text}} : TRUE

\* re.sub(r'\bIN WITNESS WHEREOF\b', 'In confirmation', text)
SubInWitnessWhereof(text) ==
    CHOOSE r \in {ReSub([q \in 1..Len(s) |->
                           LiteralWordEnd(s, q, "IN WITNESS WHEREOF")],
                        "In confirmation", s) : s \in {text}} : TRUE

preprocess_legal_text(text) ==
    CHOOSE stripped \in
        {Strip(t) : t \in {SubInWitnessWhereof(SubNowTherefore(SubWhereas(
                              SubFCitation(SubUsCitation(SubWhitespace(text))))))}} :
        TRUE

(***************************************************************************)
(* LegalDocumentSummarizer.extractive_summarization                                *)
(***************************************************************************)
MinSentenceLen == 20

\* mutation: sentences of exactly 20 characters are kept
RECURSIVE LongSentences_AtLeast(_)
LongSentences_AtLeast(parts) ==
    IF parts = <<>> THEN <<>>
    ELSE (IF Len(Strip(parts[1])) >= MinSentenceLen
          THEN <<Strip(parts[1])>> ELSE <<>>)
         \o LongSentences_AtLeast(Tail(parts))

\* [s.strip() for s in sentences if s.strip() and len(s.strip()) > 20]
RECURSIVE LongSentences(_)
LongSentences(parts) ==
    IF parts = <<>> THEN <<>>
    ELSE (IF Strip(parts[1]) # "" /\ Len(Strip(parts[1])) > MinSentenceLen
          THEN <<Strip(parts[1])>> ELSE <<>>)
         \o LongSentences(Tail(parts))

\* the sentences extractive_summarization works on
SurvivingSentences(text) == LongSentences(ReSplitSentences(text))

legal_keywords ==
    {"agreement", "contract", "party", "parties", "term", "condition",
     "obligation", "right", "liability", "breach", "termination",
     "payment", "consideration", "whereas", "therefore", "shall",
     "landlord", "tenant", "lease", "property", "premises"}

\* sum(1 for word in words if word in legal_keywords)
KeywordCount(words) ==
    Cardinality({k \in 1..Len(words) : words[k] \in legal_keywords})

legal_phrases == {"this agreement", "the parties", "it is agreed", "subject to"}

\* re.search(r'\b(this agreement|the parties|it is agreed|subject to)\b', lower)
HasLegalPhrase(lower) ==
    LET Match == {q \in Nat :
                    \E trig \in legal_phrases : LiteralWordEnd(lower, q, trig) # 0}
    IN FirstIn(Match, 1, Len(lower)) # 0

\* re.search(r'\b\d+\b', sentence): a whole digit run between word boundaries
HasNumber(sentence) ==
    LET Match == {q \in Nat :
                    /\ WordBoundary(sentence, q)
                    /\ DigitRunEnd(sentence, q) >= q
                    /\ WordBoundary(sentence, DigitRunEnd(sentence, q) + 1)}
    IN FirstIn(Match, 1, Len(sentence)) # 0

\* the score of one sentence
SentenceScore(sentence) ==
    KeywordCount(PySplit(ToLower(sentence)))
    + (IF HasLegalPhrase(ToLower(sentence)) THEN 2 ELSE 0)
    + (IF HasNumber(sentence) THEN 1 ELSE 0)

\* sentence_scores: (sentence, score, i) for i, sentence in enumerate(sentences)
SentenceScores(sentences) ==
    [k \in 1..Len(sentences) |->
        [sentence |-> sentences[k], score |-> SentenceScore(sentences[k]), i |-> k - 1]]

\* mutation: a sentence goes before the sentences of equal score
InsertScored_Unstable(item, sorted) ==
    LET before == {k \in 1..Len(sorted) : sorted[k].score > item.score}
        n == Cardinality(before)
    IN SubSeq(sorted, 1, n) \o <<item>> \o SubSeq(sorted, n + 1, Len(sorted))

\* one step of the stable descending sort: the item goes after every
\* sentence of a score at least its own
InsertScored(item, sorted) ==
    LET before == {k \in 1..Len(sorted) : sorted[k].score >= item.score}
        n == Cardinality(before)
    IN SubSeq(sorted, 1, n) \o <<item>> \o SubSeq(sorted, n + 1, Len(sorted))

\* sentence_scores.sort(key=lambda x: x[1], reverse=True), of the first n items
RECURSIVE SortScored(_, _)
SortScored(items, n) ==
    IF n = 0 THEN <<>>
    ELSE InsertScored(items[n], SortScored(items, n - 1))

\* mutation: the selection is left in score order
SortByPosition_Skipped(items, n) == SubSeq(items, 1, n)

\* selected_sentences.sort(key=lambda x: x[2]), of the first n items
RECURSIVE SortByPosition(_, _)
SortByPosition(items, n) ==
    IF n = 0 THEN <<>>
    ELSE LET sorted == SortByPosition(items, n - 1)
             before == {k \in 1..Len(sorted) : sorted[k].i <= items[n].i}
             m == Cardinality(before)
         IN SubSeq(sorted, 1, m) \o <<items[n]>> \o SubSeq(sorted, m + 1, Len(sorted))

\* selected_sentences after both sorts
SelectedSentences(sentences, num) ==
    LET sentence_scores == SentenceScores(sentences)
        by_score == SortScored(sentence_scores, Len(sentence_scores))
        selected_sentences == PySlice(by_score, 0, num)
    IN SortByPosition(selected_sentences, Len(selected_sentences))

\* '. '.join(...) + '.'
JoinSentences(sentences) == Join(". ", sentences) \o "."

extractive_summarization(text, num) ==
    LET sentences == SurvivingSentences(text)
        selected_sentences == SelectedSentences(sentences, num)
    IN IF Len(sentences) <= num THEN JoinSentences(sentences)
       ELSE JoinSentences([k \in 1..Len(selected_sentences) |->
                              selected_sentences[k].sentence])

(***************************************************************************)
(* Direct calls of extractive_summarization.                               *)
(***************************************************************************)
MaxSumPieces == 3
MaxTarget == 3
DefaultNumSentences == 5

\* sentences of scores 3, 4, 0, 3 and 0, a sentence of 20 characters, and a
\* citation whose periods split it
SummaryPieces ==
    {" The tenant shall pay rent on day 5.",
     " This agreement binds the parties today!",
     " It was a sunny day in the old town?",
     " WHEREAS the landlord owns the premises.",
     " The lease, the term, the breach: all void...",
     " Exactly twenty chars!",
     " See 410 U.S. 113 for the lease term."}

SummaryTexts == PieceTexts(SummaryPieces, MaxSumPieces)

Targets == 1..MaxTarget \cup {DefaultNumSentences}

ExtractiveInit ==
    /\ ex_text \in SummaryTexts
    /\ num_sentences \in Targets
    /\ ex_pc = "ready"
    /\ ex_summary = ""

ExtractiveSummarization ==
    /\ ex_pc = "ready"
    /\ ex_summary' = extractive_summarization(ex_text, num_sentences)
    /\ ex_pc' = "returned"
    /\ UNCHANGED <<ex_text, num_sentences>>
    /\ UNCHANGED <<chunkerVars, extractorVars, nerVars, summarizerVars>>

SummarizeInit ==
    ExtractiveInit /\ ChunkerIdle /\ ExtractorIdle /\ NerIdle /\ SummarizerIdle
SummarizeNext == ExtractiveSummarization
SummarizeSpec == SummarizeInit /\ [][SummarizeNext]_vars

(***************************************************************************)
(* Claims about extractive_summarization.                                  *)
(***************************************************************************)
\* the sentences of a text: the non-blank fragments between terminator runs,
\* trimmed
SentencesOf(text) == StripNonEmpty(ReSplitSentences(text))

\* the sentences of a text that have more than 20 characters
RECURSIVE LongerThan20(_)
LongerThan20(list) ==
    IF list = <<>> THEN <<>>
    ELSE (IF Len(list[1]) > 20 THEN <<list[1]>> ELSE <<>>) \o LongerThan20(Tail(list))

\* the members of a set of numbers in increasing order
RECURSIVE Ascending(_)
Ascending(S) ==
    IF S = {} THEN <<>>
    ELSE LET m == CHOOSE x \in S : \A y \in S : x <= y
         IN <<m>> \o Ascending(S \ {m})

\* the summary that holds the sentences at the positions S, in text order
SummaryOf(sentences, S) ==
    LET order == Ascending(S)
    IN Join(". ", [k \in 1..Len(order) |-> sentences[order[k]]]) \o "."

\* C12 (as claimed): when the text has at most num_sentences sentences,
\* extractive_summarization returns all of them, unmodified and in their
\* order, joined with ". " plus a trailing period.
C12_AllSentencesReturned ==
    (ex_pc = "returned" /\ Len(SentencesOf(ex_text)) <= num_sentences) =>
        ex_summary = SummaryOf(SentencesOf(ex_text), 1..Len(SentencesOf(ex_text)))

\* C12 (amended): when at most num_sentences sentences of the text have more
\* than 20 characters, extractive_summarization returns exactly those,
\* trimmed and in their order, joined with ". " plus a trailing period; the
\* sentences of 20 characters or fewer are dropped.
C12_AllSurvivorsReturned ==
    LET survivors == LongerThan20(SentencesOf(ex_text))
    IN (ex_pc = "returned" /\ Len(survivors) <= num_sentences) =>
           ex_summary = SummaryOf(survivors, 1..Len(survivors))

\* three sentences and a target of 5: the two long ones are returned, the
\* one of 20 characters is dropped
C12_Witness ==
    /\ ex_pc = "returned"
    /\ num_sentences = 5
    /\ SentencesOf(ex_text)
         = <<"The tenant shall pay rent on day 5", "Exactly twenty chars",
             "This agreement binds the parties today">>
    /\ ex_summary
         = "The tenant shall pay rent on day 5. This agreement binds the parties today."

\* C13: the sentences of the summary are sentences of the text taken in
\* strictly increasing position, and there are exactly
\* min(num_sentences, number of surviving sentences) of them.
C13_OrderPreserved ==
    ex_pc = "returned" =>
        LET survivors == LongerThan20(SentencesOf(ex_text))
            n == Len(survivors)
        IN \E S \in SUBSET (1..n) :
              /\ Cardinality(S) = Min(num_sentences, n)
              /\ ex_summary = SummaryOf(survivors, S)

\* the best sentence comes last in the text and the summary keeps text order
C13_Witness ==
    /\ ex_pc = "returned"
    /\ num_sentences = 2
    /\ LongerThan20(SentencesOf(ex_text))
         = <<"It was a sunny day in the old town",
             "The tenant shall pay rent on day 5",
             "This agreement binds the parties today">>
    /\ ex_summary
         = "The tenant shall pay rent on day 5. This agreement binds the parties today."

\* the positions of the num best of the sentences with the given scores:
\* those with fewer than num sentences before them in the order (higher
\* score, then earlier position)
BestPositions(scores, num) ==
    {k \in 1..Len(scores) :
        Cardinality({j \in 1..Len(scores) :
            \/ scores[j] > scores[k]
            \/ scores[j] = scores[k] /\ j < k}) < num}

\* C20: when more sentences survive than num_sentences, the summary holds
\* exactly the num_sentences highest-scoring ones, the earlier position
\* winning among equal scores, so that no sentence left out has a higher
\* score than one taken.
C20_HighestScoresSelected ==
    LET survivors == LongerThan20(SentencesOf(ex_text))
        scores == [k \in 1..Len(survivors) |-> SentenceScore(survivors[k])]
        best == BestPositions(scores, num_sentences)
    IN (ex_pc = "returned" /\ Len(survivors) > num_sentences) =>
          /\ ex_summary = SummaryOf(survivors, best)
          /\ Cardinality(best) = num_sentences
          /\ \A k \in best : \A j \in (1..Len(survivors)) \ best :
                scores[j] <= scores[k]

\* two sentences of score 3 and a later one of score 4, target 2: the later
\* of the equal ones is left out
C20_Witness ==
    /\ ex_pc = "returned"
    /\ num_sentences = 2
    /\ LongerThan20(SentencesOf(ex_text))
         = <<"The tenant shall pay rent on day 5",
             "WHEREAS the landlord owns the premises",
             "This agreement binds the parties today">>
    /\ SentenceScore("The tenant shall pay rent on day 5") = 3
    /\ SentenceScore("WHEREAS the landlord owns the premises") = 3
    /\ ex_summary
         = "The tenant shall pay rent on day 5. This agreement binds the parties today."

(***************************************************************************)
(* LegalDocumentSummarizer.generate_summary and abstractive_summarization.  Every   *)
(* thread runs one call at a time; a step is the code between two accesses *)
(* of the shared field max_length.                                         *)
(***************************************************************************)
DefaultMaxLength == 150
max_chunk_length == 1024
MinChunkChars == 50

MaxDocSentences == 9
NumThreads == 2

\* a lease, sentence by sentence
LeaseSentences ==
    <<"WHEREAS the landlord owns the premises.",
      " The tenant shall pay rent on day 5!",
      " This agreement binds the parties today.",
      " It was a sunny day in the old town?",
      " See 410 U.S. 113 for the lease term.",
      " The breach ends the contract at once.",
      " NOW, THEREFORE the parties sign below.",
      " Each party keeps one copy of the deed.",
      " The garden is green and very quiet.",
      " IN WITNESS WHEREOF the seal is set.">>

\* the first k sentences of the lease
LeasePrefix(k) == Join("", SubSeq(LeaseSentences, 1, Min(k, Len(LeaseSentences))))

DocTexts == {LeasePrefix(k) : k \in 0..MaxDocSentences} \cup {" \n\t "}

ConcurrentTexts == {LeasePrefix(4)}

\* the length tiers of generate_summary: num_sentences and max_length
TierSentences(length) ==
    IF length = "short" THEN 3 ELSE IF length = "medium" THEN 5 ELSE 8

TierMaxLength(length) ==
    IF length = "short" THEN 80 ELSE IF length = "medium" THEN 150 ELSE 250

\* chunks of max_chunk_length words: ' '.join(words[i:i + max_chunk_length])
\* for i in range(0, len(words), max_chunk_length)
WordChunks(words) ==
    [j \in 1..((Len(words) + max_chunk_length - 1) \div max_chunk_length) |->
        Join(" ", PySlice(words, (j - 1) * max_chunk_length, j * max_chunk_length))]

\* what one request to the summarization pipeline can do: raise, or return
\* a summary_text
GeneratedSummaries ==
    {"The tenant pays rent.",
     "The parties agree that the tenant pays rent to the landlord every month of the term."}

PipelineOutcomes ==
    {[raised |-> TRUE, summary_text |-> ""]}
    \cup {[raised |-> FALSE, summary_text |-> g] : g \in GeneratedSummaries}

\* a request to the pipeline, as made by the call of a thread
Request(t, min_length) ==
    [thread |-> t, length |-> call[t].length,
     max_length |-> max_length, min_length |-> min_length]

\* mutation: the ratio of the words added
CompressionRatio_Inverted(original_words, summary_words) ==
    [num |-> (summary_words - original_words) * 100, den |-> original_words]

\* the compression ratio (original_words - summary_words) / original_words
\* * 100 as an exact fraction
CompressionRatio(original_words, summary_words) ==
    [num |-> (original_words - summary_words) * 100, den |-> original_words]

\* mutation: the original words are counted in the preprocessed text
SummaryResult_ProcessedWords(c) ==
    [summary |-> c.summary,
     summary_type |-> c.summary_type,
     length |-> c.length,
     original_words |-> Len(PySplit(c.processed_text)),
     summary_words |-> Len(PySplit(c.summary)),
     compression_ratio |->
         CompressionRatio(Len(PySplit(c.processed_text)), Len(PySplit(c.summary))),
     sentences |-> Len(ReSplitSentences(c.summary))]

\* the dict generate_summary returns
SummaryResult(c) ==
    [summary |-> c.summary,
     summary_type |-> c.summary_type,
     length |-> c.length,
     original_words |-> Len(PySplit(c.text)),
     summary_words |-> Len(PySplit(c.summary)),
     compression_ratio |->
         CompressionRatio(Len(PySplit(c.text)), Len(PySplit(c.summary))),
     sentences |-> Len(ReSplitSentences(c.summary))]

IdleCall ==
    [pc |-> "idle", text |-> "", summary_type |-> "", length |-> "",
     processed_text |-> "", original_max_length |-> 0,
     chunks |-> <<>>, k |-> 0, chunk_summaries |-> <<>>,
     summary |-> "", path |-> "", result |-> <<>>]

\* the except branch and the missing-pipeline branch of
\* abstractive_summarization: self.extractive_summarization(text)
Fallback(text) == extractive_summarization(text, DefaultNumSentences)

\* generate_summary up to the dispatch on summary_type
Begin(t, text, summary_type, length) ==
    /\ call[t].pc = "idle"
    /\ \E processed_text \in {preprocess_legal_text(text)} :
         LET started == [IdleCall EXCEPT
                           !.text = text, !.summary_type = summary_type,
                           !.length = length, !.processed_text = processed_text]
         IN call' = [call EXCEPT ![t] =
              IF summary_type = "extractive"
              THEN [started EXCEPT
                      !.summary = extractive_summarization(
                                      processed_text, TierSentences(length)),
                      !.path = "extractive", !.pc = "stats"]
              ELSE [started EXCEPT !.pc = "save"]]
    /\ UNCHANGED <<summarizer, init_max_length, max_length, requests>>

\* original_max_length = self.max_length
SaveMaxLength(t) ==
    /\ call[t].pc = "save"
    /\ call' = [call EXCEPT ![t].original_max_length = max_length,
                            ![t].pc = "set"]
    /\ UNCHANGED <<summarizer, init_max_length, max_length, requests>>

\* self.max_length = max_length
SetMaxLength(t) ==
    /\ call[t].pc = "set"
    /\ max_length' = TierMaxLength(call[t].length)
    /\ call' = [call EXCEPT ![t].pc = "summarize"]
    /\ UNCHANGED <<summarizer, init_max_length, requests>>

\* abstractive_summarization up to the loop over the chunks
Abstractive(t) ==
    /\ call[t].pc = "summarize"
    /\ call' = [call EXCEPT ![t] =
         IF summarizer = "none"
         THEN [@ EXCEPT !.summary = Fallback(call[t].processed_text),
                        !.path = "absent", !.pc = "restore"]
         ELSE [@ EXCEPT !.chunks = WordChunks(PySplit(call[t].processed_text)),
                        !.k = 1, !.pc = "chunks"]]
    /\ UNCHANGED <<summarizer, init_max_length, max_length, requests>>

\* one turn of the loop over the chunks: a chunk of more than 50 characters
\* is sent to the pipeline with max_length=self.max_length
SummarizeChunk(t) ==
    LET k == call[t].k
    IN /\ call[t].pc = "chunks"
       /\ k <= Len(call[t].chunks)
       /\ IF Len(Strip(call[t].chunks[k])) > MinChunkChars
          THEN /\ requests' = requests \cup {Request(t, 30)}
               /\ \E out \in PipelineOutcomes :
                     call' = [call EXCEPT ![t] =
                        IF out.raised
                        THEN [@ EXCEPT !.summary = Fallback(call[t].processed_text),
                                       !.path = "failed", !.pc = "restore"]
                        ELSE [@ EXCEPT !.chunk_summaries =
                                           Append(@, out.summary_text),
                                       !.k = k + 1]]
          ELSE /\ call' = [call EXCEPT ![t].k = k + 1]
               /\ UNCHANGED requests
       /\ UNCHANGED <<summarizer, init_max_length, max_length>>

\* after the loop: the chunk summaries are combined; a combination of more
\* words than self.max_length is sent to the pipeline once more
CombineSummaries(t) ==
    LET chunk_summaries == call[t].chunk_summaries
        combined_summary == Join(" ", chunk_summaries)
        again == /\ Len(chunk_summaries) > 1
                 /\ Len(PySplit(combined_summary)) > max_length
    IN /\ call[t].pc = "chunks"
       /\ call[t].k > Len(call[t].chunks)
       /\ requests' = IF again THEN requests \cup {Request(t, 50)} ELSE requests
       /\ \E out \in (IF again THEN PipelineOutcomes
                      ELSE {[raised |-> FALSE, summary_text |-> ""]}) :
             call' = [call EXCEPT ![t] =
                IF out.raised
                THEN [@ EXCEPT !.summary = Fallback(call[t].processed_text),
                               !.path = "failed", !.pc = "restore"]
                ELSE [@ EXCEPT
                        !.summary =
                            IF again THEN out.summary_text
                            ELSE IF Len(chunk_summaries) > 1 THEN combined_summary
                            ELSE IF chunk_summaries # <<>> THEN chunk_summaries[1]
                            ELSE "Unable to generate summary.",
                        !.path = "generated", !.pc = "restore"]]
       /\ UNCHANGED <<summarizer, init_max_length, max_length>>

\* mutation: max_length is left at the tier's value
RestoreMaxLength_Skipped(t) ==
    /\ call[t].pc = "restore"
    /\ call' = [call EXCEPT ![t].pc = "stats"]
    /\ UNCHANGED <<summarizer, init_max_length, max_length, requests>>

\* self.max_length = original_max_length
RestoreMaxLength(t) ==
    /\ call[t].pc = "restore"
    /\ max_length' = call[t].original_max_length
    /\ call' = [call EXCEPT ![t].pc = "stats"]
    /\ UNCHANGED <<summarizer, init_max_length, requests>>

\* the statistics and the return: the division raises ZeroDivisionError when
\* the text has no words
ComputeStatistics(t) ==
    /\ call[t].pc = "stats"
    /\ call' = [call EXCEPT ![t] =
         IF Len(PySplit(@.text)) = 0
         THEN [@ EXCEPT !.pc = "raised"]
         ELSE [@ EXCEPT !.pc = "returned", !.result = SummaryResult(call[t])]]
    /\ UNCHANGED <<summarizer, init_max_length, max_length, requests>>

\* the caller goes on to its next call
NextCall(t) ==
    /\ call[t].pc \in {"returned", "raised"}
    /\ call' = [call EXCEPT ![t] = IdleCall]
    /\ UNCHANGED <<summarizer, init_max_length, max_length, requests>>

(***************************************************************************)
(* Specifications of generate_summary.                                     *)
(***************************************************************************)
SummaryTypes == {"extractive", "abstractive"}
Lengths == {"short", "medium", "long"}
InitMaxLengths == {DefaultMaxLength, 100}

\* LegalDocumentSummarizer(max_length=...): the pipeline loads or it does not
SummarizerInit(threads) ==
    /\ summarizer \in {"none", "loaded"}
    /\ init_max_length \in InitMaxLengths
    /\ max_length = init_max_length
    /\ call = [t \in threads |-> IdleCall]
    /\ requests = {}

GenerateSummary ==
    \E t \in DOMAIN call : \E text \in DocTexts :
        \E summary_type \in SummaryTypes, length \in Lengths :
            Begin(t, text, summary_type, length)

GenerateAbstractiveSummary ==
    \E t \in DOMAIN call : \E text \in ConcurrentTexts, length \in Lengths :
        Begin(t, text, "abstractive", length)

CallStep ==
    \E t \in DOMAIN call :
        \/ SaveMaxLength(t)
        \/ SetMaxLength(t)
        \/ Abstractive(t)
        \/ SummarizeChunk(t)
        \/ CombineSummaries(t)
        \/ RestoreMaxLength(t)
        \/ ComputeStatistics(t)

CallAgain == \E t \in DOMAIN call : NextCall(t)

OnlySummarizer == ChunkerIdle /\ ExtractorIdle /\ NerIdle /\ ExtractiveIdle

\* one caller, one call after the other
SummaryInit == SummarizerInit({1}) /\ OnlySummarizer
SummaryNext ==
    /\ GenerateSummary \/ CallStep \/ CallAgain
    /\ UNCHANGED <<chunkerVars, extractorVars, nerVars, extractiveVars>>
SummarySpec == SummaryInit /\ [][SummaryNext]_vars

\* NumThreads callers, one abstractive call each, interleaved
ConcurrentInit == SummarizerInit(1..NumThreads) /\ OnlySummarizer
ConcurrentNext ==
    /\ GenerateAbstractiveSummary \/ CallStep
    /\ UNCHANGED <<chunkerVars, extractorVars, nerVars, extractiveVars>>
ConcurrentSpec == ConcurrentInit /\ [][ConcurrentNext]_vars

SummarizerTypeOK ==
    /\ max_length \in {80, 100, 150, 250}
    /\ \A t \in DOMAIN call : call[t].pc \in
          {"idle", "save", "set", "summarize", "chunks", "restore", "stats",
           "returned", "raised"}


(***************************************************************************)
(* Claims about generate_summary.                                          *)
(***************************************************************************)
\* C14: a call of type 'abstractive' on a non-empty text whose pipeline is
\* absent or raises returns, and its summary is the extractive summary of the
\* preprocessed text for the tier of the call (3, 5 or 8 sentences), the
\* summary the same call of type 'extractive' returns.
C14_FallbackIsTierExtractive ==
    \A t \in DOMAIN call :
        /\ call[t].summary_type = "abstractive"
        /\ call[t].path \in {"absent", "failed"}
        /\ call[t].pc \in {"returned", "raised"}
        /\ Len(PySplit(call[t].text)) > 0
        => /\ call[t].pc = "returned"
           /\ call[t].result.summary
                = extractive_summarization(call[t].processed_text,
                                           TierSentences(call[t].length))

\* the pipeline raised on a short summary of four sentences: the call returns
\* the four sentences, the extractive call returns three
C14_Witness ==
    \E t \in DOMAIN call :
        /\ call[t].pc = "returned"
        /\ call[t].summary_type = "abstractive"
        /\ call[t].length = "short"
        /\ call[t].path = "failed"
        /\ call[t].text = LeasePrefix(4)
        /\ call[t].result.summary = Fallback(call[t].processed_text)
        /\ call[t].result.summary
             # extractive_summarization(call[t].processed_text, 3)

\* C17: generate_summary raises ZeroDivisionError exactly when the text has
\* no whitespace-delimited word, whatever the type and the length; on a text
\* of at least one word it returns a result whose compression_ratio is
\* (original_words - summary_words) / original_words * 100.
C17_ZeroDivisionExactly ==
    \A t \in DOMAIN call :
        LET c == call[t]
            original_words == Len(PySplit(c.text))
        IN /\ c.pc = "raised" => original_words = 0
           /\ c.pc = "returned" =>
                 /\ original_words > 0
                 /\ c.result.original_words = original_words
                 /\ c.result.summary_words = Len(PySplit(c.result.summary))
                 /\ c.result.compression_ratio.den = original_words
                 /\ c.result.compression_ratio.num
                      = (original_words - c.result.summary_words) * 100

\* an all-whitespace text: the pipeline gets no chunk, the summary is the
\* fixed message, and the division raises
C17_Witness ==
    \E t \in DOMAIN call :
        /\ call[t].pc = "raised"
        /\ call[t].text = " \n\t "
        /\ call[t].summary_type = "abstractive"
        /\ call[t].summary = "Unable to generate summary."

\* C18: when generate_summary returns on a non-empty text with summary_words
\* <= original_words, 0 <= compression_ratio <= 100.
C18_CompressionRatioBounds ==
    \A t \in DOMAIN call :
        /\ call[t].pc = "returned"
        /\ call[t].result.summary_words <= call[t].result.original_words
        => LET ratio == call[t].result.compression_ratio
           IN /\ ratio.den > 0
              /\ 0 <= ratio.num
              /\ ratio.num <= 100 * ratio.den

\* a summary shorter than its text, with a ratio strictly between 0 and 100
C18_Witness ==
    \E t \in DOMAIN call :
        /\ call[t].pc = "returned"
        /\ call[t].result.summary_words < call[t].result.original_words
        /\ call[t].result.summary_words > 0
        /\ call[t].result.compression_ratio.num > 0
        /\ call[t].result.compression_ratio.num
             < 100 * call[t].result.compression_ratio.den

\* C15: when abstractive calls of different length tiers interleave on one
\* summarizer, every request to the pipeline carries the maximum length of
\* the tier of the call that makes it (80, 150 or 250), and once all calls
\* have returned max_length is what it was before the first of them.
C15_CallsIndependent ==
    (\A t, u \in DOMAIN call :
        t # u /\ call[t].pc # "idle" /\ call[u].pc # "idle"
        => call[t].length # call[u].length)
    => /\ \A r \in requests : r.max_length = TierMaxLength(r.length)
       /\ (\A t \in DOMAIN call : call[t].pc \in {"idle", "returned"})
          => max_length = init_max_length

\* two calls of different tiers have returned: one of them sent a request
\* with the other's maximum length, and max_length is not restored
C15_Witness ==
    /\ \A t \in DOMAIN call : call[t].pc = "returned"
    /\ \E t, u \in DOMAIN call : call[t].length # call[u].length
    /\ \E r \in requests : r.max_length # TierMaxLength(r.length)
    /\ max_length # init_max_length

(***************************************************************************)
(* One document handed to the chunker and to the extractor: a TextChunker  *)
(* of valid parameters processes it, and extract_statistical_keywords and  *)
(* then extract_key_phrases are called on it.                              *)
(***************************************************************************)
DocumentTexts ==
    {"", " ", " \n\t ", "\n\n", "\r\n \t", ScenarioKeywordText, ScenarioPhraseText,
     "One. Two! Three? Four. Five."}

DocumentInit ==
    /\ chunk_size \in 1..MaxChunkSize
    /\ overlap \in 0..(chunk_size - 1)
    /\ method \in {"words", "sentences", "paragraphs"}
    /\ doc \in DocumentTexts
    /\ chunk_pc = "ready"
    /\ chunks = <<>>
    /\ kw_text = doc
    /\ min_freq \in 1..MaxMinFreq
    /\ max_keywords \in {1, DefaultMaxKeywords}
    /\ max_phrases \in {1, DefaultMaxPhrases}
    /\ kw_pc = "ready"
    /\ keywords = <<>>
    /\ phrases = <<>>

\* extract_key_phrases on the text whose keywords have been returned
ThenExtractKeyPhrases ==
    /\ kw_pc = "returned_keywords"
    /\ phrases' = extract_key_phrases(kw_text, max_phrases)
    /\ kw_pc' = "returned_both"
    /\ UNCHANGED <<kw_text, min_freq, max_keywords, max_phrases, keywords>>
    /\ UNCHANGED <<chunkerVars, nerVars, extractiveVars, summarizerVars>>

PipelineInit == DocumentInit /\ NerIdle /\ ExtractiveIdle /\ SummarizerIdle
PipelineNext ==
    ProcessDocument \/ ExtractStatisticalKeywords \/ ThenExtractKeyPhrases
PipelineSpec == PipelineInit /\ [][PipelineNext]_vars

\* empty or all-whitespace
IsBlank(text) == \A i \in 1..Len(text) : IsSpace(Char(text, i))

\* C16: on an empty or all-whitespace text, with valid parameters, chunking
\* by words, by sentences and by paragraphs returns no chunk,
\* extract_statistical_keywords returns no keyword and extract_key_phrases
\* returns no phrase, and none of them raises.
C16_DegenerateInput ==
    IsBlank(doc) =>
        /\ chunk_pc # "raised"
        /\ chunk_pc = "returned" => chunks = <<>>
        /\ kw_pc \in {"returned_keywords", "returned_both"} => keywords = <<>>
        /\ kw_pc = "returned_both" => phrases = <<>>

\* an all-whitespace document after the three calls
C16_Witness ==
    /\ doc = " \n\t "
    /\ method = "paragraphs"
    /\ chunk_pc = "returned"
    /\ chunks = <<>>
    /\ kw_pc = "returned_both"
    /\ keywords = <<>>
    /\ phrases = <<>>

(***************************************************************************)
(* LegalKeywordExtractor.preprocess_text, extract_named_entities and       *)
(* extract_all_keywords.                                                   *)
(***************************************************************************)
\* where a match of \b(WHEREAS|NOW THEREFORE|IN WITNESS WHEREOF)\b that
\* starts at p ends, 0 if none: the alternatives are tried in order
BoilerplateEnd(s, p) ==
    IF LiteralWordEnd(s, p, "WHEREAS") # 0
    THEN LiteralWordEnd(s, p, "WHEREAS")
    ELSE IF LiteralWordEnd(s, p, "NOW THEREFORE") # 0
    THEN LiteralWordEnd(s, p, "NOW THEREFORE")
    ELSE LiteralWordEnd(s, p, "IN WITNESS WHEREOF")

\* re.sub(pattern, lambda m: m.group(1).lower(), s), from position i on
RECURSIVE ReSubLowerFrom(_, _, _)
ReSubLowerFrom(ends, s, i) ==
    LET m == FirstIn({q \in Nat : ends[q] # 0}, i, Len(s))
    IN IF m = 0 THEN SubSeq(s, i, Len(s))
       ELSE SubSeq(s, i, m - 1) \o ToLower(SubSeq(s, m, ends[m]))
            \o ReSubLowerFrom(ends, s, ends[m] + 1)

preprocess_text(text) ==
    CHOOSE stripped \in
        {Strip(ReSubLowerFrom([q \in 1..Len(s) |-> BoilerplateEnd(s, q)], s, 1)) :
            s \in {SubWhitespace(text)}} : TRUE

NerMaxLength == 512

\* chunks of 512 words: ' '.join(words[i:i + max_length])
\* for i in range(0, len(words), max_length)
NerChunks(words) ==
    [j \in 1..((Len(words) + NerMaxLength - 1) \div NerMaxLength) |->
        Join(" ", PySlice(words, (j - 1) * NerMaxLength, j * NerMaxLength))]

MaxEntities == 3

\* entities the NER pipeline can return
NerEntities ==
    {[word |-> "Acme Corp", entity_group |-> "ORG", score |-> 99],
     [word |-> "ACME CORP", entity_group |-> "MISC", score |-> 80],
     [word |-> "US", entity_group |-> "LOC", score |-> 95],
     [word |-> "Bob", entity_group |-> "PER", score |-> 90]}

RECURSIVE EntityLists(_)
EntityLists(k) ==
    IF k = 0 THEN {<<>>}
    ELSE LET shorter == EntityLists(k - 1)
         IN shorter \cup {Append(l, x) : l \in shorter, x \in NerEntities}

\* what self.ner_pipeline(chunk) can do: raise, or return a list of entities
NerOutcomes ==
    {[raised |-> TRUE, entities |-> <<>>]}
    \cup {[raised |-> FALSE, entities |-> l] : l \in EntityLists(MaxEntities)}

\* the runs of the loop over n chunks: it stops at the first call that raises
RECURSIVE NerRuns(_)
NerRuns(n) ==
    IF n = 0 THEN {<<>>}
    ELSE {<<o>> : o \in {x \in NerOutcomes : x.raised}}
         \cup {<<o>> \o r : o \in {x \in NerOutcomes : ~x.raised}, r \in NerRuns(n - 1)}

\* all_entities: the entities of every chunk, in order
RECURSIVE AllEntities(_)
AllEntities(run) ==
    IF run = <<>> THEN <<>> ELSE run[1].entities \o AllEntities(Tail(run))

\* mutation: an entity is kept although its lowercase text was seen
RECURSIVE FilterEntities_KeepDuplicates(_, _)
FilterEntities_KeepDuplicates(all_entities, seen_entities) ==
    IF all_entities = <<>> THEN <<>>
    ELSE (IF Len(all_entities[1].word) > 2
          THEN <<[text |-> all_entities[1].word,
                  label |-> all_entities[1].entity_group,
                  confidence |-> all_entities[1].score]>>
          ELSE <<>>)
         \o FilterEntities_KeepDuplicates(Tail(all_entities), seen_entities)

\* filtered_entities: an entity is kept when its lowercase text is new and
\* has more than 2 characters
RECURSIVE FilterEntities(_, _)
FilterEntities(all_entities, seen_entities) ==
    IF all_entities = <<>> THEN <<>>
    ELSE IF /\ ToLower(all_entities[1].word) \notin seen_entities
            /\ Len(ToLower(all_entities[1].word)) > 2
         THEN <<[text |-> all_entities[1].word,
                 label |-> all_entities[1].entity_group,
                 confidence |-> all_entities[1].score]>>
              \o FilterEntities(Tail(all_entities),
                                seen_entities \cup {ToLower(all_entities[1].word)})
         ELSE FilterEntities(Tail(all_entities), seen_entities)

\* extract_named_entities(text) when the loop over the chunks ran as run
extract_named_entities(pipeline, run) ==
    IF pipeline = "none" THEN <<>>
    ELSE IF run # <<>> /\ run[Len(run)].raised THEN <<>>
    ELSE FilterEntities(AllEntities(run), {})

\* category_counts: how many keywords each category has
CategoryCounts(kws) ==
    [c \in {kws[k].category : k \in 1..Len(kws)} |->
        Cardinality({k \in 1..Len(kws) : kws[k].category = c})]

\* the dict extract_all_keywords builds from the preprocessed text
ExtractionResult(processed_text, kws, phs, entities) ==
    [keywords |-> kws,
     key_phrases |-> phs,
     named_entities |-> entities,
     statistics |->
        [total_words |-> Len(PySplit(processed_text)),
         unique_keywords |-> Cardinality({kws[k].term : k \in 1..Len(kws)}),
         total_phrases |-> Len(phs),
         total_entities |-> Len(entities),
         category_distribution |-> CategoryCounts(kws)]]

extract_all_keywords(text, pipeline, run) ==
    CHOOSE result \in
        {ExtractionResult(
            processed_text,
            extract_statistical_keywords(processed_text, DefaultMinFreq,
                                         DefaultMaxKeywords),
            extract_key_phrases(processed_text, DefaultMaxPhrases),
            extract_named_entities(pipeline, run)) :
         processed_text \in {preprocess_text(text)}} : TRUE

ExtractAllTexts ==
    {"", " \n\t ", ScenarioKeywordText, ScenarioPhraseText,
     "WHEREAS  the landlord\nshall be responsible for repairs; NOW THEREFORE the tenant shall pay the landlord. IN WITNESS WHEREOF Acme Corp signs in the US.",
     "The term of a covenant is a term. Notice is hereby given: the covenant may bind Bob."}

\* LegalKeywordExtractor(): the NER pipeline loads or it does not
ExtractAllInit ==
    /\ kw_text \in ExtractAllTexts
    /\ min_freq = DefaultMinFreq
    /\ max_keywords = DefaultMaxKeywords
    /\ max_phrases = DefaultMaxPhrases
    /\ kw_pc = "ready"
    /\ keywords = <<>>
    /\ phrases = <<>>
    /\ ner_pipeline \in {"none", "loaded"}
    /\ ner_calls = <<>>
    /\ extraction = <<>>

ExtractAllKeywords ==
    /\ kw_pc = "ready"
    /\ \E run \in (IF ner_pipeline = "none" THEN {<<>>}
                   ELSE NerRuns(Len(NerChunks(PySplit(preprocess_text(kw_text)))))) :
          /\ ner_calls' = run
          /\ extraction' = extract_all_keywords(kw_text, ner_pipeline, run)
    /\ kw_pc' = "returned_all"
    /\ UNCHANGED <<kw_text, min_freq, max_keywords, max_phrases, keywords, phrases,
                   ner_pipeline>>
    /\ UNCHANGED <<chunkerVars, extractiveVars, summarizerVars>>

NerInit == ExtractAllInit /\ ChunkerIdle /\ ExtractiveIdle /\ SummarizerIdle
NerNext == ExtractAllKeywords
NerSpec == NerInit /\ [][NerNext]_vars

\* the pipeline was absent or one of its calls raised
NerFailed ==
    \/ ner_pipeline = "none"
    \/ ner_calls # <<>> /\ ner_calls[Len(ner_calls)].raised

\* the k-th smallest member of a set of positions
NthOf(K, k) == CHOOSE p \in K : Cardinality({q \in K : q <= p}) = k

\* the entities at the positions K, in order, as extract_named_entities
\* returns them
EntitiesAt(all_entities, K) ==
    [k \in 1..Cardinality(K) |->
        [text |-> all_entities[NthOf(K, k)].word,
         label |-> all_entities[NthOf(K, k)].entity_group,
         confidence |-> all_entities[NthOf(K, k)].score]]

\* the positions of the first occurrences of the lowercase texts
FirstOccurrences(all_entities) ==
    {k \in 1..Len(all_entities) :
        \A j \in 1..(k - 1) :
            ToLower(all_entities[j].word) # ToLower(all_entities[k].word)}

\* what extract_all_keywords returns apart from the entities depends on the
\* text alone; without a working NER pipeline there is no entity
NerNeverAborts ==
    LET processed_text == preprocess_text(kw_text)
        kws == extract_statistical_keywords(processed_text, 2, 50)
        phs == extract_key_phrases(processed_text, 20)
    IN /\ extraction.keywords = kws
       /\ extraction.key_phrases = phs
       /\ extraction.statistics.total_words = Len(PySplit(processed_text))
       /\ extraction.statistics.unique_keywords
            = Cardinality({kws[k].term : k \in 1..Len(kws)})
       /\ extraction.statistics.total_phrases = Len(phs)
       /\ extraction.statistics.total_entities = Len(extraction.named_entities)
       /\ NerFailed =>
             /\ extraction.named_entities = <<>>
             /\ extraction.statistics.total_entities = 0

\* C19 as stated: extract_all_keywords returns the same keywords, key
\* phrases and word, keyword and phrase statistics whatever the NER pipeline
\* does; named_entities is empty and total_entities is 0 when the pipeline is
\* absent or raises; when it succeeds, named_entities holds the first
\* occurrence of every lowercase entity text.
C19_EntitiesDeduplicated ==
    kw_pc = "returned_all" =>
        /\ NerNeverAborts
        /\ ~NerFailed =>
              extraction.named_entities
                = EntitiesAt(AllEntities(ner_calls),
                             FirstOccurrences(AllEntities(ner_calls)))

\* C19, amended: as above, but when the pipeline succeeds named_entities
\* holds the first occurrence of every lowercase entity text of more than 2
\* characters; shorter entities are dropped.
C19_LongEntitiesDeduplicated ==
    kw_pc = "returned_all" =>
        /\ NerNeverAborts
        /\ ~NerFailed =>
              LET all_entities == AllEntities(ner_calls)
              IN extraction.named_entities
                   = EntitiesAt(all_entities,
                                {k \in FirstOccurrences(all_entities) :
                                    Len(all_entities[k].word) > 2})

\* the pipeline returned 'Acme Corp', 'US' and 'ACME CORP': 'US' is dropped
\* and the second spelling is a duplicate
C19_Witness ==
    /\ kw_pc = "returned_all"
    /\ ner_pipeline = "loaded"
    /\ Len(ner_calls) = 1
    /\ ~ner_calls[1].raised
    /\ Len(ner_calls[1].entities) = 3
    /\ ner_calls[1].entities[1].word = "Acme Corp"
    /\ ner_calls[1].entities[2].word = "US"
    /\ ner_calls[1].entities[3].word = "ACME CORP"
    /\ extraction.named_entities
         = <<[text |-> "Acme Corp", label |-> "ORG", confidence |-> 99]>>
    /\ Len(extraction.keywords) > 0
    /\ Len(extraction.key_phrases) > 0

(***************************************************************************)
(* Claims about the sentence score and the keyword set.                    *)
(***************************************************************************)
\* the maximal runs of letters of s, from position p on
RECURSIVE LetterRunsFrom(_, _)
LetterRunsFrom(s, p) ==
    LET m == FirstIn({q \in Nat : IsLetter(Char(s, q))}, p, Len(s))
    IN IF m = 0 THEN <<>>
       ELSE <<SubSeq(s, m, LetterRunEnd(s, m))>>
            \o LetterRunsFrom(s, LetterRunEnd(s, m) + 1)

\* does s contain sub
ContainsText(s, sub) ==
    \E p \in 1..(Len(s) - Len(sub) + 1) : SubSeq(s, p, p + Len(sub) - 1) = sub

\* the score as the claim states it: the letter runs that are legal keywords,
\* 2 for a trigger phrase anywhere, 1 for a digit anywhere
StatedScore(sentence) ==
    LET runs == LetterRunsFrom(ToLower(sentence), 1)
    IN Cardinality({k \in 1..Len(runs) : runs[k] \in legal_keywords})
       + (IF \E trig \in legal_phrases : ContainsText(ToLower(sentence), trig)
          THEN 2 ELSE 0)
       + (IF \E p \in 1..Len(sentence) : Char(sentence, p) \in Digits
          THEN 1 ELSE 0)

\* C21: the score of a sentence is the number of its words (maximal runs of
\* letters, compared case-insensitively, whatever punctuation adjoins them)
\* that are in the legal keyword list, plus 2 if it contains one of the four
\* trigger phrases, plus 1 if it contains a run of digits.
C21_SentenceScore ==
    ex_pc = "returned" =>
        LET sentences == SurvivingSentences(ex_text)
        IN Len(sentences) > num_sentences =>
              \A k \in 1..Len(sentences) :
                  SentenceScore(sentences[k]) = StatedScore(sentences[k])

\* 'lease,', 'term,' and 'breach:' are no keywords for the code: the sentence
\* scores 0 instead of 3 and loses against an earlier sentence of score 0
C21_Witness ==
    /\ ex_pc = "returned"
    /\ ex_text = " It was a sunny day in the old town?"
                   \o " The lease, the term, the breach: all void..."
    /\ num_sentences = 1
    /\ SentenceScore("The lease, the term, the breach: all void") = 0
    /\ StatedScore("The lease, the term, the breach: all void") = 3
    /\ ex_summary = "It was a sunny day in the old town."

\* how often x occurs in a list
Occurrences(list, x) == Cardinality({k \in 1..Len(list) : list[k] = x})

\* the terms the claim states: lowercase maximal letter runs of more than 2
\* characters that are no stop words and occur at least min times
StatedTerms(text, min) ==
    LET runs == LetterRunsFrom(ToLower(text), 1)
    IN {runs[k] : k \in {j \in 1..Len(runs) :
                            /\ Len(runs[j]) > 2
                            /\ runs[j] \notin stop_words
                            /\ Occurrences(runs, runs[j]) >= min}}

\* C22: when max_keywords is at least the number of qualifying terms,
\* extract_statistical_keywords returns a keyword for t exactly when t is the
\* lowercase form of a maximal run of letters of the text (digits or other
\* non-letters may adjoin it), has more than 2 characters, is no stop word
\* and occurs at least min_freq times; its frequency is that number of
\* occurrences; 'will', 'should' and 'may' are never returned.
C22_KeywordSetComplete ==
    kw_pc = "returned_keywords" =>
        LET runs == LetterRunsFrom(ToLower(kw_text), 1)
            stated == StatedTerms(kw_text, min_freq)
        IN max_keywords >= Cardinality(stated) =>
              /\ TermsOf(keywords) = stated
              /\ \A k \in 1..Len(keywords) :
                    keywords[k].frequency = Occurrences(runs, keywords[k].term)
              /\ TermsOf(keywords) \cap {"will", "should", "may"} = {}

\* 'rent' stands 7 times in the text, 3 times next to a digit or an
\* underscore: the code counts 4
C22_Witness ==
    /\ kw_pc = "returned_keywords"
    /\ kw_text = "rent2 rent rent_ rent rent-free 2rent (rent) re nt"
    /\ min_freq = 2
    /\ max_keywords = DefaultMaxKeywords
    /\ Occurrences(LetterRunsFrom(ToLower(kw_text), 1), "rent") = 7
    /\ Len(keywords) = 1
    /\ keywords[1].term = "rent"
    /\ keywords[1].frequency = 4

\* C23: between the calls of one caller, whatever their type and length and
\* whether the pipeline was there, absent or failing, max_length is the value
\* given at construction; during an extractive call it is that value at
\* every step.
C23_MaxLengthRestored ==
    \A t \in DOMAIN call :
        \/ call[t].pc \in {"idle", "returned"}
        \/ call[t].summary_type = "extractive"
        => max_length = init_max_length

\* a short abstractive call whose pipeline raised has returned on a
\* summarizer constructed with max_length 100
C23_Witness ==
    \E t \in DOMAIN call :
        /\ call[t].pc = "returned"
        /\ call[t].summary_type = "abstractive"
        /\ call[t].length = "short"
        /\ call[t].path = "failed"
        /\ call[t].original_max_length = 100
        /\ init_max_length = 100
        /\ max_length = 100
        /\ \E r \in requests : r.max_length = 80

\* C24: on a text of at least one word an extractive generate_summary
\* returns summary_words <= original_words, so that its compression_ratio is
\* not negative.
C24_ExtractiveNotLonger ==
    \A t \in DOMAIN call :
        call[t].pc = "returned" /\ call[t].summary_type = "extractive"
        => /\ call[t].result.summary_words <= call[t].result.original_words
           /\ call[t].result.compression_ratio.num >= 0

\* 'WHEREAS' is rewritten to 'Given that' before the sentences are picked:
\* 7 words for 6
C24_Witness ==
    \E t \in DOMAIN call :
        /\ call[t].pc = "returned"
        /\ call[t].summary_type = "extractive"
        /\ call[t].text = "WHEREAS the landlord owns the premises."
        /\ call[t].result.summary = "Given that the landlord owns the premises."
        /\ call[t].result.original_words = 6
        /\ call[t].result.summary_words = 7
        /\ call[t].result.compression_ratio.num < 0

\* the number of non-empty sentences of a text
NonEmptySentences(content) ==
    LET parts == ReSplitSentences(content)
    IN Cardinality({k \in 1..Len(parts) : ~IsBlank(parts[k])})

\* C25: the sentence_count of every chunk, whatever the method, is the number
\* of non-empty sentences of the chunk's content (and the 'sentences' field
\* of a summary result is the number of sentences joined into the summary).
C25_SentenceCountExact ==
    chunk_pc = "returned" =>
        \A k \in 1..Len(chunks) :
            chunks[k].sentence_count = NonEmptySentences(chunks[k].content)

\* a chunk of three words, each ending a sentence: the split leaves an empty
\* piece after the last terminator and the count is 4
C25_Witness ==
    /\ chunk_pc = "returned"
    /\ method = "words"
    /\ \E k \in 1..Len(chunks) :
          /\ chunks[k].content = "One. Two! Three?"
          /\ NonEmptySentences(chunks[k].content) = 3
          /\ chunks[k].sentence_count = 4

=============================================================================
